---- MODULE Spec2Model ----
(***************************************************************************)
(* pc-store backend: user registration bridged to the Keycloak identity    *)
(* provider (AuthService.registerUser, createUserInKeycloak, the register  *)
(* controller), the category controller and the product controller with    *)
(* their Cloudinary image cleanup, the two text functions they rely on     *)
(* (the slug of a category name, the public id of an image URL), the two   *)
(* deleteImageFromCloudinary functions and the paginated listings.         *)
(*                                                                         *)
(* Strings that the code inspects with includes()/split() are modelled as  *)
(* sequences of pieces, so that the inspection is computed, not assumed:   *)
(* an error message is the sequence of its phrases, a URL or a category    *)
(* name is the sequence of its characters.  A missing (undefined) field of *)
(* a registration and the empty string are both written "": the code tests *)
(* them with `!x`.                                                         *)
(***************************************************************************)
EXTENDS Integers, Sequences, FiniteSets, TLC

\* ------------------------------------------------------------------ bounds
\* requests issued in one behaviour (registrations, category requests)
MaxRequests == 3

\* longest text given to the slug transform, most segments of a URL given to
\* the public id extraction
MaxTextLen == 3
MaxSegments == 3

\* most records of a collection that is listed, most pages of one walk through
\* a listing
MaxRecords == 15
MaxWalk == 3

\* requests in flight at once: each is an async handler suspended at an await
Reqs == {1, 2}

Usernames == {"", "alice", "bob"}
Emails == {"", "a@x", "b@x"}
Passwords == {"", "pw"}

\* ids the identity provider hands out, in order
KcIdPool == <<"k1", "k2", "k3", "k4", "k5", "k6">>

VARIABLES
    \* --- Local User Store and identity provider
    users,          \* the User collection: set of documents
    kcAccounts,     \* accounts in the Keycloak realm
    \* --- one registration request per slot
    pc,             \* where the handler of the slot is suspended
    body,           \* req.body / RegisterUserDto of the slot
    via,            \* "http": through the register controller; "service": registerUser called directly
    existingUser,   \* result of User.findOne in registerUser
    userId,         \* userId extracted by createUserInKeycloak ("" before)
    response,       \* what the caller got: HTTP status, error, user
    calls,          \* the provider endpoints this request called, in order
    stored,         \* the document this request saved (NoUser if none)
    seen,           \* the User collection as it was when this request queried it
    kcError,        \* the error thrown inside createUserInKeycloak's try block (NoThrown if none)
    raised,         \* the error createUserInKeycloak raised to registerUser (NoError if none)
    started,        \* requests issued so far
    \* --- Category collection and one category request per slot
    categories,     \* the Category collection: set of documents
    catIds,         \* number of _id values handed out
    cpc,            \* where the category handler of the slot is suspended
    creq,           \* the request: handler, req.params.id, req.body.name, req.body.image
    category,       \* the document findById returned to the handler
    slug,           \* the handler's local `slug`
    cres,           \* HTTP status of the answer (0: none yet)
    attempts,       \* public ids this request passed to cloudinary.uploader.destroy, in order
    \* --- Product collection and one product request per slot
    products,       \* the Product collection: set of documents
    prodIds,        \* number of product _id values handed out
    ppc,            \* where the product handler of the slot is suspended
    preq,           \* the request: handler, req.params.id, required fields, the handler's image array
    product,        \* the document findById returned to the handler
    pres,           \* the answer: HTTP status (0: none yet) and the document in its body
    pattempts,      \* calls of cloudinary.uploader.destroy by this request, in order, with their outcome
    \* --- one call of a text function
    fn,             \* the function called ("": none yet)
    arg,            \* its argument
    result          \* what it returned

regVars == <<users, kcAccounts, pc, body, via, existingUser, userId, response, calls, stored, seen, kcError, raised>>
catVars == <<categories, catIds, cpc, creq, category, slug, cres, attempts>>
prodVars == <<products, prodIds, ppc, preq, product, pres, pattempts>>
fnVars == <<fn, arg, result>>
vars == <<users, kcAccounts, pc, body, via, existingUser, userId, response, calls, stored, seen, kcError, raised, started,
          categories, catIds, cpc, creq, category, slug, cres, attempts,
          products, prodIds, ppc, preq, product, pres, pattempts, fn, arg, result>>

\* ------------------------------------------------------------- documents
NoUser == [keycloakId |-> "", username |-> "", email |-> "", role |-> ""]
NoBody == [username |-> "", email |-> "", password |-> ""]
NoError == [name |-> "", message |-> <<>>]
NoResponse == [status |-> 0, error |-> NoError, user |-> NoUser]

\* String.prototype.includes on a message, for the phrases the code looks for
Includes(message, phrase) == \E i \in 1..Len(message) : message[i] = phrase

Err(name, message) == [name |-> name, message |-> message]

\* ------------------------------------------------ error messages of the code
MsgLocalExists == <<"User with this username or email", "already exists">>
MsgKcExists == <<"User", "already exists", "in", "Keycloak">>
MsgKcAuth == <<"Keycloak", "authentication failed - check admin credentials">>
MsgKcStatus(status, text) == <<"Keycloak", "error (", ToString(status), "):">> \o text
MsgKcOther(message) == <<"Keycloak", "error:">> \o message
MsgNoUserId == <<"Failed to get user ID from", "Keycloak", "response">>
MsgAuthServiceFailed == <<"Failed to create user in authentication service">>
MsgInvalidData == <<"Invalid user data provided">>
MsgRegistrationFailed == <<"Registration failed. Please try again.">>
MsgMissingFields == <<"Missing required fields: username, email, and password are required">>

\* ------------------------------------------------------ identity provider
\* An error thrown inside createUserInKeycloak's try block.  status = 0: the
\* error has no `response` (a network error, a TypeError, a plain Error).
Thrown(name, message, status, data) ==
    [name |-> name, message |-> message, status |-> status, data |-> data]
AxiosError(status, data) ==
    Thrown("AxiosError", <<"Request failed with status code", ToString(status)>>, status, data)
NetworkError == Thrown("AxiosError", <<"connect ECONNREFUSED">>, 0, <<>>)
NoThrown == Thrown("", <<>>, 0, <<>>)

\* data.errorMessage texts of the provider's error bodies (<<>>: none given)
ProviderTexts == {<<>>, <<"Resource", "already exists">>}
TokenFailures == {AxiosError(401, <<>>), AxiosError(500, <<>>), NetworkError}
CreateFailures ==
    {AxiosError(401, <<>>), NetworkError} \cup {AxiosError(500, t) : t \in ProviderTexts}

\* the realm refuses a second account with the same username or the same email
KcConflict(accounts, username, email) ==
    \E a \in accounts : a.username = username \/ (email # "" /\ a.email = email)

KcNewId(accounts) == KcIdPool[Cardinality(accounts) + 1]

\* the Location header of the 201 answer; "missing": the header is absent
LocationKinds == {"ok", "trailing", "missing"}
LocationHeader(kind, id) ==
    LET url == <<"http:", "", "keycloak:8080", "admin", "realms", "pcstore", "users", id>>
    IN  CASE kind = "ok" -> [defined |-> TRUE, parts |-> url]
          [] kind = "trailing" -> [defined |-> TRUE, parts |-> url \o <<"">>]
          [] OTHER -> [defined |-> FALSE, parts |-> <<>>]

\* keycloakAdmin.ts 66-72: locationHeader.split('/').pop(), then `if (!userId) throw`
ExtractUserIdWrong(location) ==
    IF ~location.defined
    THEN [ok |-> FALSE, userId |-> "",
          error |-> Thrown("TypeError", <<"Cannot read properties of undefined (reading 'split')">>, 0, <<>>)]
    ELSE [ok |-> TRUE, userId |-> location.parts[Len(location.parts) - 1], error |-> NoThrown]
ExtractUserId(location) ==
    IF ~location.defined
    THEN [ok |-> FALSE, userId |-> "",
          error |-> Thrown("TypeError", <<"Cannot read properties of undefined (reading 'split')">>, 0, <<>>)]
    ELSE LET id == location.parts[Len(location.parts)]
         IN  IF id = ""
             THEN [ok |-> FALSE, userId |-> "", error |-> Thrown("Error", MsgNoUserId, 0, <<>>)]
             ELSE [ok |-> TRUE, userId |-> id, error |-> NoThrown]

\* keycloakAdmin.ts 112-131: the catch of createUserInKeycloak
KeycloakCatchNoStatus(error) == Err("Error", MsgKcOther(error.message))
KeycloakCatch(error) ==
    IF error.status # 0
    THEN IF error.status = 409 THEN Err("Error", MsgKcExists)
         ELSE IF error.status = 401 THEN Err("Error", MsgKcAuth)
         ELSE Err("Error", MsgKcStatus(error.status,
                  IF error.data # <<>> THEN error.data ELSE <<"Unknown error">>))
    ELSE Err("Error", MsgKcOther(error.message))

\* keycloakAdmin.ts 100-103: the catch around the role lookup and assignment
\* swallows the error; TRUE: createUserInKeycloak goes on to return the user
RoleCatchRethrows == FALSE
RoleCatchContinues == TRUE

\* ------------------------------------------------------- Local User Store
\* AuthService.ts 11-13: User.findOne({ $or: [{ username }, { email }] })
FindOneAnd(coll, username, email) ==
    \E u \in coll : u.username = username /\ u.email = email
FindOne(coll, username, email) ==
    \E u \in coll : u.username = username \/ u.email = email

\* AuthService.ts 23-28
NewUserNamedId(keycloakId, username, email) ==
    [keycloakId |-> username, username |-> username, email |-> email, role |-> "user"]
NewUser(keycloakId, username, email) ==
    [keycloakId |-> keycloakId, username |-> username, email |-> email, role |-> "user"]

\* UserSchema: required paths, role enum, unique index on keycloakId
SaveOutcome(doc, coll) ==
    IF doc.keycloakId = "" \/ doc.username = "" \/ doc.email = "" \/ doc.role \notin {"user", "admin"}
    THEN Err("ValidationError", <<"User validation failed">>)
    ELSE IF \E d \in coll : d.keycloakId = doc.keycloakId
    THEN Err("MongoServerError", <<"E11000 duplicate key error collection: users index: keycloakId_1">>)
    ELSE NoError

\* ------------------------------------------------------------ AuthService
\* AuthService.ts 33-50: the catch of registerUser
RegisterUserCatchValidatorError(error) ==
    IF Includes(error.message, "already exists") THEN Err(error.name, error.message)
    ELSE IF Includes(error.message, "Keycloak") THEN Err("Error", MsgAuthServiceFailed)
    ELSE IF error.name = "ValidatorError" THEN Err("Error", MsgInvalidData)
    ELSE Err("Error", MsgRegistrationFailed)
RegisterUserCatch(error) ==
    IF Includes(error.message, "already exists") THEN Err(error.name, error.message)
    ELSE IF Includes(error.message, "Keycloak") THEN Err("Error", MsgAuthServiceFailed)
    ELSE IF error.name = "ValidationError" THEN Err("Error", MsgInvalidData)
    ELSE Err("Error", MsgRegistrationFailed)

\* AuthService.ts 61-87: the register controller around registerUser; a direct
\* caller of the service gets the error or the user with no HTTP status (0)
Throws(v, error) ==
    [status |-> IF v = "http" THEN 500 ELSE 0, error |-> RegisterUserCatch(error), user |-> NoUser]
Returns(v, user) ==
    [status |-> IF v = "http" THEN 201 ELSE 0, error |-> NoError, user |-> user]
MissingFields(b) == b.username = "" \/ b.email = "" \/ b.password = ""

\* ------------------------------------------------------------------ text
\* A string the category code takes apart is the sequence of its characters.
\* Two values that are no character sequences stand for JavaScript's undefined
\* (a field absent from req.body) and null.
Undefined == <<"undefined">>
Null == <<"null">>
Falsy(x) == x = <<>> \/ x = Undefined \/ x = Null
Truthy(x) == ~Falsy(x)

Digits == {"0", "1", "2", "3", "4", "5", "6", "7", "8", "9"}
UpperAlpha == <<"A", "B", "C", "D", "E", "F", "G", "H", "I", "J", "K", "L", "M",
                "N", "O", "P", "Q", "R", "S", "T", "U", "V", "W", "X", "Y", "Z">>
LowerAlpha == <<"a", "b", "c", "d", "e", "f", "g", "h", "i", "j", "k", "l", "m",
                "n", "o", "p", "q", "r", "s", "t", "u", "v", "w", "x", "y", "z">>

\* String.prototype.split(sep)
RECURSIVE Split(_, _)
Split(chars, sep) ==
    IF \E i \in 1..Len(chars) : chars[i] = sep
    THEN LET i == CHOOSE k \in 1..Len(chars) :
                      chars[k] = sep /\ \A j \in 1..(k - 1) : chars[j] # sep
         IN  <<SubSeq(chars, 1, i - 1)>> \o Split(SubSeq(chars, i + 1, Len(chars)), sep)
    ELSE <<chars>>

\* Array.prototype.join(sep)
RECURSIVE Join(_, _)
Join(parts, sep) ==
    IF parts = <<>> THEN <<>>
    ELSE IF Len(parts) = 1 THEN parts[1]
    ELSE parts[1] \o <<sep>> \o Join(Tail(parts), sep)

\* Array.prototype.findIndex(part => part === wanted), counted from 1; 0 for -1
FindIndex(parts, wanted) ==
    IF \E i \in 1..Len(parts) : parts[i] = wanted
    THEN CHOOSE i \in 1..Len(parts) : parts[i] = wanted /\ \A j \in 1..(i - 1) : parts[j] # wanted
    ELSE 0

\* String.prototype.toLowerCase
ToLowerCase(chars) ==
    [i \in 1..Len(chars) |->
        IF \E k \in 1..26 : UpperAlpha[k] = chars[i]
        THEN LowerAlpha[CHOOSE k \in 1..26 : UpperAlpha[k] = chars[i]]
        ELSE chars[i]]

\* ------------------------------------------------------------ Cloudinary
Upload == <<"u", "p", "l", "o", "a", "d">>

\* .replace(/^v\d+\//, '')
StripVersionOneDigit(chars) ==
    IF Len(chars) >= 3 /\ chars[1] = "v" /\ chars[2] \in Digits /\ chars[3] = "/"
    THEN SubSeq(chars, 4, Len(chars))
    ELSE chars
StripVersion(chars) ==
    LET n == Len(chars)
        run == CHOOSE k \in 0..n :
                   /\ \A j \in 2..(1 + k) : j <= n /\ chars[j] \in Digits
                   /\ (2 + k > n \/ chars[2 + k] \notin Digits)
    IN  IF n >= 3 /\ chars[1] = "v" /\ run >= 1 /\ 2 + run <= n /\ chars[2 + run] = "/"
        THEN SubSeq(chars, 3 + run, n)
        ELSE chars

\* .replace(/\.[^/.]+$/, '')
StripExtension(chars) ==
    LET n == Len(chars)
        dots == {i \in 1..n : /\ chars[i] = "."
                              /\ i < n
                              /\ \A j \in (i + 1)..n : chars[j] \notin {"/", "."}}
    IN  IF dots = {} THEN chars
        ELSE SubSeq(chars, 1, (CHOOSE i \in dots : \A j \in dots : i <= j) - 1)

\* part_003 10-35
ExtractPublicIdFromUrl(url) ==
    LET urlParts == Split(url, "/")
        uploadIndex == FindIndex(urlParts, Upload)
    IN  IF uploadIndex = 0 THEN Null
        ELSE StripExtension(StripVersion(
                 Join(SubSeq(urlParts, uploadIndex + 1, Len(urlParts)), "/")))

\* image values of the model: absent, "", "h/upload/v1/c/a.j", "h/upload/b.p",
\* "h/img/c.p"
UrlVersioned == Join(<< <<"h">>, Upload, <<"v", "1">>, <<"c">>, <<"a", ".", "j">> >>, "/")
UrlPlain == Join(<< <<"h">>, Upload, <<"b", ".", "p">> >>, "/")
UrlForeign == Join(<< <<"h">>, <<"i", "m", "g">>, <<"c", ".", "p">> >>, "/")
Images == {Undefined, <<>>, UrlVersioned, UrlPlain, UrlForeign}

\* cloudinary.uploader.destroy answers (result 'ok' or 'not found') or throws
DestroyOutcomes == {"answers", "throws"}

\* ------------------------------------------------------------ categories
NoCategory == [id |-> 0, name |-> <<>>, slug |-> <<>>, image |-> <<>>]
NoCatRequest == [op |-> "", id |-> 0, name |-> Undefined, image |-> Undefined]

\* category names of the model: "Gp", "G p!"
CatNames == {Undefined, <<"G", "p">>, <<"G", " ", "p", "!">>}

\* part_003 77, 217: name.toLowerCase().replace(/[^a-z0-9]+/g, '-').replace(/(^-|-$)/g, '')
IsSlugChar(c) == c \in Digits \/ \E k \in 1..26 : LowerAlpha[k] = c
RECURSIVE ReplaceRuns(_)
ReplaceRuns(chars) ==
    IF chars = <<>> THEN <<>>
    ELSE IF IsSlugChar(chars[1]) THEN <<chars[1]>> \o ReplaceRuns(Tail(chars))
    ELSE IF Len(chars) >= 2 /\ ~IsSlugChar(chars[2]) THEN ReplaceRuns(Tail(chars))
    ELSE <<"-">> \o ReplaceRuns(Tail(chars))
TrimHyphensLeadingOnly(chars) ==
    SubSeq(chars, IF Len(chars) >= 1 /\ chars[1] = "-" THEN 2 ELSE 1, Len(chars))
TrimHyphens(chars) ==
    LET n == Len(chars)
        from == IF n >= 1 /\ chars[1] = "-" THEN 2 ELSE 1
        to == IF n >= 2 /\ chars[n] = "-" THEN n - 1 ELSE n
    IN  SubSeq(chars, from, to)
Slugify(name) == TrimHyphens(ReplaceRuns(ToLowerCase(name)))

\* CategorySchema (part_004 39-57): name and slug required, both unique
CategoryWriteOutcomeNoSlugIndex(doc, coll) ==
    IF doc.name = <<>> \/ doc.slug = <<>> THEN "ValidationError"
    ELSE IF \E c \in coll : c.id # doc.id /\ c.name = doc.name
    THEN "E11000"
    ELSE "ok"
CategoryWriteOutcome(doc, coll) ==
    IF doc.name = <<>> \/ doc.slug = <<>> THEN "ValidationError"
    ELSE IF \E c \in coll : c.id # doc.id /\ (c.name = doc.name \/ c.slug = doc.slug)
    THEN "E11000"
    ELSE "ok"

\* part_003 208-212: the old image is deleted when a different one is supplied
NeedsImageCleanupAnyImage(image, cat) == Truthy(image) /\ Truthy(cat.image)
NeedsImageCleanup(image, cat) == Truthy(image) /\ image # cat.image /\ Truthy(cat.image)

\* part_003 41-48: deleteImageFromCloudinary reaches cloudinary.uploader.destroy
ReachesDestroy(imageUrl) == Truthy(imageUrl) /\ Truthy(ExtractPublicIdFromUrl(imageUrl))

\* -------------------------------------------------------------- products
\* the required fields of a product body and its stock; "" and 0 stand for
\* every falsy value, so that `stock || 0` leaves the stock of the model as it is
NoFields == [name |-> "", brand |-> "", category |-> "", price |-> 0, stock |-> 0]
ProductFields ==
    {[name |-> "n", brand |-> "b", category |-> "c", price |-> 5, stock |-> 0],
     [name |-> "", brand |-> "b", category |-> "c", price |-> 5, stock |-> 0],
     [name |-> "n", brand |-> "b", category |-> "c", price |-> 0, stock |-> 0]}

\* bodies with every required field, a price that is positive, zero or
\* negative, and a stock that is absent, positive or negative
PricedFields ==
    {[name |-> "n", brand |-> "b", category |-> "c", price |-> price, stock |-> stock] :
        price \in {5, 0, -5}, stock \in {0, 3, -3}}

NoProduct == [id |-> 0, fields |-> NoFields, images |-> <<>>]
NoProdRequest == [op |-> "", id |-> 0, fields |-> NoFields, images |-> <<>>]
NoProdResponse == [status |-> 0, doc |-> NoProduct]

\* ProductController.ts 14, 199
MissingProductFields(f) == f.name = "" \/ f.brand = "" \/ f.category = "" \/ f.price = 0

\* req.body.images: absent, one string, or an array of strings
NoImages == [kind |-> "absent", value |-> <<>>]
ImageString(chars) == [kind |-> "string", value |-> chars]
ImageList(urls) == [kind |-> "array", value |-> urls]
ProductImages ==
    {NoImages, ImageString(UrlPlain), ImageString(<<" ">>), ImageList(<<>>),
     ImageList(<<UrlVersioned>>), ImageList(<<UrlForeign, UrlPlain>>),
     ImageList(<<UrlVersioned, UrlForeign, UrlPlain>>)}

\* String.prototype.trim, for the blanks of the model
RECURSIVE TrimStart(_)
TrimStart(chars) ==
    IF chars # <<>> /\ chars[1] = " " THEN TrimStart(Tail(chars)) ELSE chars
RECURSIVE TrimEnd(_)
TrimEnd(chars) ==
    IF chars # <<>> /\ chars[Len(chars)] = " " THEN TrimEnd(SubSeq(chars, 1, Len(chars) - 1)) ELSE chars
Trim(chars) == TrimEnd(TrimStart(chars))

\* ProductController.ts 19-25, 204-210
ImageArray(images) ==
    IF images.kind = "array" THEN images.value
    ELSE IF images.kind = "string" /\ Trim(images.value) # <<>> THEN <<images.value>>
    ELSE <<>>

\* ProductController.ts 126-127, 222-223: 0 for -1
UploadIndex(imageUrl) == FindIndex(Split(imageUrl, "/"), Upload)

\* ProductController.ts 213-219: the first stored image gave way to another one
FirstImageChangedOrKept(existingImages, newImageArray) ==
    /\ Len(existingImages) > 0
    /\ Truthy(existingImages[1])
    /\ Len(newImageArray) > 0 /\ Truthy(newImageArray[1])
FirstImageChanged(existingImages, newImageArray) ==
    /\ Len(existingImages) > 0
    /\ Truthy(existingImages[1])
    /\ Len(newImageArray) > 0 /\ Truthy(newImageArray[1])
    /\ existingImages[1] # newImageArray[1]

\* a call of cloudinary.uploader.destroy that has not been answered yet
DestroyCall(imageUrl) ==
    [imageUrl |-> imageUrl, publicId |-> ExtractPublicIdFromUrl(imageUrl), result |-> "pending"]

\* ProductController.ts 123-150: product.images.map runs each callback up to its
\* await, in order: one call per image with an 'upload' segment
RECURSIVE DestroyCalls(_)
DestroyCalls(images) ==
    IF images = <<>> THEN <<>>
    ELSE (IF UploadIndex(images[1]) # 0 THEN <<DestroyCall(images[1])>> ELSE <<>>)
         \o DestroyCalls(Tail(images))

Pending(log) == {i \in 1..Len(log) : log[i].result = "pending"}

\* ProductController.ts 153: await Promise.all(deletePromises)
AnySettled(log) == Pending(log) # 1..Len(log)
AllSettled(log) == Pending(log) = {}

\* ------------------------------------------------------------------- Init
Init ==
    /\ users = {}
    /\ kcAccounts = {}
    /\ pc = [r \in Reqs |-> "idle"]
    /\ body = [r \in Reqs |-> NoBody]
    /\ via = [r \in Reqs |-> "http"]
    /\ existingUser = [r \in Reqs |-> FALSE]
    /\ userId = [r \in Reqs |-> ""]
    /\ response = [r \in Reqs |-> NoResponse]
    /\ calls = [r \in Reqs |-> <<>>]
    /\ stored = [r \in Reqs |-> NoUser]
    /\ seen = [r \in Reqs |-> {}]
    /\ kcError = [r \in Reqs |-> NoThrown]
    /\ raised = [r \in Reqs |-> NoError]
    /\ started = 0
    /\ categories = {}
    /\ catIds = 0
    /\ cpc = [r \in Reqs |-> "idle"]
    /\ creq = [r \in Reqs |-> NoCatRequest]
    /\ category = [r \in Reqs |-> NoCategory]
    /\ slug = [r \in Reqs |-> <<>>]
    /\ cres = [r \in Reqs |-> 0]
    /\ attempts = [r \in Reqs |-> <<>>]
    /\ products = {}
    /\ prodIds = 0
    /\ ppc = [r \in Reqs |-> "idle"]
    /\ preq = [r \in Reqs |-> NoProdRequest]
    /\ product = [r \in Reqs |-> NoProduct]
    /\ pres = [r \in Reqs |-> NoProdResponse]
    /\ pattempts = [r \in Reqs |-> <<>>]
    /\ fn = ""
    /\ arg = <<>>
    /\ result = <<>>

\* a new request takes the first slot that is free
FreeSlot(r) == pc[r] = "idle" /\ \A q \in Reqs : q < r => pc[q] # "idle"

\* the handler of slot r ends: its caller gets `resp`
Finish(r, resp) ==
    /\ pc' = [pc EXCEPT ![r] = "done"]
    /\ response' = [response EXCEPT ![r] = resp]

\* keycloakAdmin.ts 112-131, AuthService.ts 20, 33-50: `thrown` is thrown inside
\* createUserInKeycloak's try; its catch raises the mapped error to registerUser,
\* whose catch ends the request
KeycloakFailsFallbackId(r, thrown) ==
    /\ raised' = [raised EXCEPT ![r] = NoError]
    /\ userId' = [userId EXCEPT ![r] = "pending"]
    /\ pc' = [pc EXCEPT ![r] = "save"]
    /\ UNCHANGED response
KeycloakFailsIgnoresConflict(r, thrown) ==
    IF thrown.status = 409
    THEN /\ raised' = [raised EXCEPT ![r] = NoError]
         /\ userId' = [userId EXCEPT ![r] = body[r].username]
         /\ pc' = [pc EXCEPT ![r] = "save"]
         /\ UNCHANGED response
    ELSE /\ raised' = [raised EXCEPT ![r] = KeycloakCatch(thrown)]
         /\ Finish(r, Throws(via[r], KeycloakCatch(thrown)))
         /\ UNCHANGED userId
KeycloakFails(r, thrown) ==
    /\ raised' = [raised EXCEPT ![r] = KeycloakCatch(thrown)]
    /\ Finish(r, Throws(via[r], KeycloakCatch(thrown)))
    /\ UNCHANGED userId

\* ------------------------------------------------- POST /auth/register
\* AuthService.ts 61-79: the controller validates the body, then awaits registerUser
Register(r, username, email, password) ==
    /\ UNCHANGED <<catVars, prodVars, fnVars>>
    /\ FreeSlot(r)
    /\ started < MaxRequests
    /\ started' = started + 1
    /\ LET b == [username |-> username, email |-> email, password |-> password]
       IN  /\ body' = [body EXCEPT ![r] = b]
           /\ via' = [via EXCEPT ![r] = "http"]
           /\ IF MissingFields(b)
              THEN Finish(r, [status |-> 400, error |-> Err("", MsgMissingFields), user |-> NoUser])
              ELSE /\ pc' = [pc EXCEPT ![r] = "findOne"]
                   /\ UNCHANGED response
    /\ UNCHANGED <<users, kcAccounts, existingUser, userId, calls, stored, seen, kcError, raised>>

\* AuthService.ts 6-7: registerUser called by code that did not validate the dto
CallRegisterUser(r, username, email, password) ==
    /\ UNCHANGED <<catVars, prodVars, fnVars>>
    /\ FreeSlot(r)
    /\ started < MaxRequests
    /\ started' = started + 1
    /\ body' = [body EXCEPT ![r] = [username |-> username, email |-> email, password |-> password]]
    /\ via' = [via EXCEPT ![r] = "service"]
    /\ pc' = [pc EXCEPT ![r] = "findOne"]
    /\ UNCHANGED <<users, kcAccounts, existingUser, userId, response, calls, stored, seen, kcError, raised>>

\* AuthService.ts 10-17: the uniqueness check
CheckExisting(r) ==
    /\ UNCHANGED <<catVars, prodVars, fnVars>>
    /\ pc[r] = "findOne"
    /\ LET found == FindOne(users, body[r].username, body[r].email)
       IN  /\ existingUser' = [existingUser EXCEPT ![r] = found]
           /\ seen' = [seen EXCEPT ![r] = users]
           /\ IF found
              THEN Finish(r, Throws(via[r], Err("Error", MsgLocalExists)))
              ELSE /\ pc' = [pc EXCEPT ![r] = "token"]
                   /\ UNCHANGED response
    /\ UNCHANGED <<users, kcAccounts, body, via, userId, calls, stored, kcError, raised, started>>

\* keycloakAdmin.ts 26-40: the admin token request is answered
TokenOk(r) ==
    /\ UNCHANGED <<catVars, prodVars, fnVars>>
    /\ pc[r] = "token"
    /\ calls' = [calls EXCEPT ![r] = Append(@, "token")]
    /\ pc' = [pc EXCEPT ![r] = "createUser"]
    /\ UNCHANGED <<users, kcAccounts, body, via, existingUser, userId, response, stored, seen, kcError, raised, started>>

TokenFail(r, failure) ==
    /\ UNCHANGED <<catVars, prodVars, fnVars>>
    /\ pc[r] = "token"
    /\ calls' = [calls EXCEPT ![r] = Append(@, "token")]
    /\ kcError' = [kcError EXCEPT ![r] = failure]
    /\ KeycloakFails(r, failure)
    /\ UNCHANGED <<users, kcAccounts, body, via, existingUser, stored, seen, started>>

\* keycloakAdmin.ts 42-72: the realm creates the account; the id is read from
\* the Location header
CreateUserOk(r, kind) ==
    /\ UNCHANGED <<catVars, prodVars, fnVars>>
    /\ pc[r] = "createUser"
    /\ body[r].username # ""
    /\ ~KcConflict(kcAccounts, body[r].username, body[r].email)
    /\ calls' = [calls EXCEPT ![r] = Append(@, "users")]
    /\ LET id == KcNewId(kcAccounts)
           got == ExtractUserId(LocationHeader(kind, id))
       IN  /\ kcAccounts' = kcAccounts \cup
                  {[id |-> id, username |-> body[r].username, email |-> body[r].email, roles |-> {}]}
           /\ kcError' = [kcError EXCEPT ![r] = got.error]
           /\ IF got.ok
              THEN /\ userId' = [userId EXCEPT ![r] = got.userId]
                   /\ pc' = [pc EXCEPT ![r] = "roles"]
                   /\ UNCHANGED <<response, raised>>
              ELSE KeycloakFails(r, got.error)
    /\ UNCHANGED <<users, body, via, existingUser, stored, seen, started>>

\* keycloakAdmin.ts 55-64, 112-131: the realm refuses, or the call fails
CreateUserFail(r, failure) ==
    /\ UNCHANGED <<catVars, prodVars, fnVars>>
    /\ pc[r] = "createUser"
    /\ IF KcConflict(kcAccounts, body[r].username, body[r].email)
       THEN failure = AxiosError(409, <<"User exists with same username or email">>)
       ELSE failure \in CreateFailures
    /\ calls' = [calls EXCEPT ![r] = Append(@, "users")]
    /\ kcError' = [kcError EXCEPT ![r] = failure]
    /\ KeycloakFails(r, failure)
    /\ UNCHANGED <<users, kcAccounts, body, via, existingUser, stored, seen, started>>

\* keycloakAdmin.ts 74-88, 100-110: the role list is fetched
RolesOk(r, hasUserRole) ==
    /\ UNCHANGED <<catVars, prodVars, fnVars>>
    /\ pc[r] = "roles"
    /\ calls' = [calls EXCEPT ![r] = Append(@, "roles")]
    /\ pc' = [pc EXCEPT ![r] = IF hasUserRole THEN "assign" ELSE "save"]
    /\ UNCHANGED <<users, kcAccounts, body, via, existingUser, userId, response, stored, seen, kcError, raised, started>>

RolesFail(r, failure) ==
    /\ UNCHANGED <<catVars, prodVars, fnVars>>
    /\ pc[r] = "roles"
    /\ calls' = [calls EXCEPT ![r] = Append(@, "roles")]
    /\ IF RoleCatchContinues
       THEN /\ pc' = [pc EXCEPT ![r] = "save"]
            /\ UNCHANGED <<response, raised, userId>>
       ELSE KeycloakFails(r, failure)
    /\ UNCHANGED <<users, kcAccounts, body, via, existingUser, stored, seen, kcError, started>>

\* keycloakAdmin.ts 88-110: the 'user' role is mapped to the new account
AssignOk(r) ==
    /\ UNCHANGED <<catVars, prodVars, fnVars>>
    /\ pc[r] = "assign"
    /\ calls' = [calls EXCEPT ![r] = Append(@, "role-mappings")]
    /\ kcAccounts' = {IF a.id = userId[r] THEN [a EXCEPT !.roles = {"user"}] ELSE a : a \in kcAccounts}
    /\ pc' = [pc EXCEPT ![r] = "save"]
    /\ UNCHANGED <<users, body, via, existingUser, userId, response, stored, seen, kcError, raised, started>>

AssignFail(r, failure) ==
    /\ UNCHANGED <<catVars, prodVars, fnVars>>
    /\ pc[r] = "assign"
    /\ calls' = [calls EXCEPT ![r] = Append(@, "role-mappings")]
    /\ IF RoleCatchContinues
       THEN /\ pc' = [pc EXCEPT ![r] = "save"]
            /\ UNCHANGED <<response, raised, userId>>
       ELSE KeycloakFails(r, failure)
    /\ UNCHANGED <<users, kcAccounts, body, via, existingUser, stored, seen, kcError, started>>

\* AuthService.ts 22-32: the local document is built and saved
Save(r) ==
    /\ UNCHANGED <<catVars, prodVars, fnVars>>
    /\ pc[r] = "save"
    /\ LET newUser == NewUser(userId[r], body[r].username, body[r].email)
           outcome == SaveOutcome(newUser, users)
       IN  IF outcome = NoError
           THEN /\ users' = users \cup {newUser}
                /\ stored' = [stored EXCEPT ![r] = newUser]
                /\ Finish(r, Returns(via[r], newUser))
           ELSE /\ Finish(r, Throws(via[r], outcome))
                /\ UNCHANGED <<users, stored>>
    /\ UNCHANGED <<kcAccounts, body, via, existingUser, userId, calls, seen, kcError, raised, started>>

\* AuthService.ts 30: the document passed validation, the database does not
\* complete the write
SaveFail(r) ==
    /\ UNCHANGED <<catVars, prodVars, fnVars>>
    /\ pc[r] = "save"
    /\ SaveOutcome(NewUser(userId[r], body[r].username, body[r].email), users) = NoError
    /\ Finish(r, Throws(via[r], Err("MongoNetworkError", <<"connection timed out">>)))
    /\ UNCHANGED <<users, kcAccounts, body, via, existingUser, userId, calls, stored, seen, kcError, raised, started>>

\* the slot is free for the next request
Release(r) ==
    /\ UNCHANGED <<catVars, prodVars, fnVars>>
    /\ pc[r] = "done"
    /\ started < MaxRequests
    /\ pc' = [pc EXCEPT ![r] = "idle"]
    /\ body' = [body EXCEPT ![r] = NoBody]
    /\ via' = [via EXCEPT ![r] = "http"]
    /\ existingUser' = [existingUser EXCEPT ![r] = FALSE]
    /\ userId' = [userId EXCEPT ![r] = ""]
    /\ response' = [response EXCEPT ![r] = NoResponse]
    /\ calls' = [calls EXCEPT ![r] = <<>>]
    /\ stored' = [stored EXCEPT ![r] = NoUser]
    /\ seen' = [seen EXCEPT ![r] = {}]
    /\ kcError' = [kcError EXCEPT ![r] = NoThrown]
    /\ raised' = [raised EXCEPT ![r] = NoError]
    /\ UNCHANGED <<users, kcAccounts, started>>

\* the steps of a registration once it is under way
Steps ==
    \/ \E r \in Reqs : CheckExisting(r)
    \/ \E r \in Reqs : TokenOk(r)
    \/ \E r \in Reqs, f \in TokenFailures : TokenFail(r, f)
    \/ \E r \in Reqs, k \in LocationKinds : CreateUserOk(r, k)
    \/ \E r \in Reqs, f \in CreateFailures \cup {AxiosError(409, <<"User exists with same username or email">>)} :
          CreateUserFail(r, f)
    \/ \E r \in Reqs, h \in BOOLEAN : RolesOk(r, h)
    \/ \E r \in Reqs, f \in TokenFailures : RolesFail(r, f)
    \/ \E r \in Reqs : AssignOk(r)
    \/ \E r \in Reqs, f \in TokenFailures : AssignFail(r, f)
    \/ \E r \in Reqs : Save(r)
    \/ \E r \in Reqs : Release(r)

\* registrations arrive over HTTP; the database completes every write
Next ==
    \/ \E r \in Reqs, u \in Usernames, e \in Emails, p \in Passwords : Register(r, u, e, p)
    \/ Steps

Spec == Init /\ [][Next]_vars

\* the same service with callers that skip the controller's validation and a
\* database that may fail a write
NextFault ==
    \/ \E r \in Reqs, u \in Usernames, e \in Emails : CallRegisterUser(r, u, e, "pw")
    \/ Steps
    \/ \E r \in Reqs : SaveFail(r)

SpecFault == Init /\ [][NextFault]_vars

\* ============================================================ categories
FreeCatSlot(r) == cpc[r] = "idle" /\ \A q \in Reqs : q < r => cpc[q] # "idle"

\* the category handler of slot r answers with `status`
Answer(r, status) ==
    /\ cpc' = [cpc EXCEPT ![r] = "done"]
    /\ cres' = [cres EXCEPT ![r] = status]

FindById(id) == {c \in categories : c.id = id}

\* ids a request may name: those handed out so far and one that never was
RequestIds == 1..(catIds + 1)
IdPool == 1..(MaxRequests + 1)

\* part_003 61-89: POST /api/categories up to the answer of Category.findOne
CreateCategory(r, name, image) ==
    /\ FreeCatSlot(r)
    /\ started < MaxRequests
    /\ started' = started + 1
    \* the image of a request without a name is never read: one value stands for all
    /\ Falsy(name) => image = Undefined
    /\ creq' = [creq EXCEPT ![r] = [op |-> "create", id |-> 0, name |-> name, image |-> image]]
    /\ IF Falsy(name)
       THEN /\ Answer(r, 400)
            /\ UNCHANGED slug
       ELSE /\ slug' = [slug EXCEPT ![r] = Slugify(name)]
            /\ IF \E c \in categories : c.name = name \/ c.slug = Slugify(name)
               THEN Answer(r, 400)
               ELSE /\ cpc' = [cpc EXCEPT ![r] = "save"]
                    /\ UNCHANGED cres
    /\ UNCHANGED <<categories, catIds, category, attempts>>
    /\ UNCHANGED <<regVars, prodVars, fnVars>>

\* part_003 91-105: category.save()
CreateSave(r) ==
    /\ cpc[r] = "save"
    /\ LET doc == [id |-> catIds + 1, name |-> creq[r].name, slug |-> slug[r],
                   image |-> IF Falsy(creq[r].image) THEN <<>> ELSE creq[r].image]
       IN  IF CategoryWriteOutcome(doc, categories) = "ok"
           THEN /\ categories' = categories \cup {doc}
                /\ catIds' = catIds + 1
                /\ category' = [category EXCEPT ![r] = doc]
                /\ Answer(r, 201)
           ELSE /\ Answer(r, 500)
                /\ UNCHANGED <<categories, catIds, category>>
    /\ UNCHANGED <<creq, slug, attempts, started>>
    /\ UNCHANGED <<regVars, prodVars, fnVars>>

\* part_003 214-231 up to the await of Category.findOne: where updateCategory
\* goes once the image cleanup is over
AfterCleanup(r, name, cat) ==
    IF Truthy(name) /\ name # cat.name
    THEN /\ slug' = [slug EXCEPT ![r] = Slugify(name)]
         /\ cpc' = [cpc EXCEPT ![r] = "findSlug"]
    ELSE /\ slug' = [slug EXCEPT ![r] = cat.slug]
         /\ cpc' = [cpc EXCEPT ![r] = "update"]

\* part_003 191-212: PUT /api/categories/:id up to the answer of Category.findById
UpdateCategory(r, id, name, image) ==
    /\ FreeCatSlot(r)
    /\ started < MaxRequests
    /\ started' = started + 1
    /\ id \in RequestIds
    \* the body of a request for a missing id is never read: one body stands for all
    /\ FindById(id) = {} => (name = Undefined /\ image = Undefined)
    /\ creq' = [creq EXCEPT ![r] = [op |-> "update", id |-> id, name |-> name, image |-> image]]
    /\ IF FindById(id) = {}
       THEN /\ Answer(r, 404)
            /\ UNCHANGED <<category, slug>>
       ELSE LET cat == CHOOSE c \in categories : c.id = id
            IN  /\ category' = [category EXCEPT ![r] = cat]
                /\ UNCHANGED cres
                /\ IF NeedsImageCleanup(image, cat) /\ ReachesDestroy(cat.image)
                   THEN /\ cpc' = [cpc EXCEPT ![r] = "destroy"]
                        /\ UNCHANGED slug
                   ELSE AfterCleanup(r, name, cat)
    /\ UNCHANGED <<categories, catIds, attempts>>
    /\ UNCHANGED <<regVars, prodVars, fnVars>>

\* part_003 50-57: cloudinary.uploader.destroy(publicId) answers or throws; the
\* throw is caught in deleteImageFromCloudinary
DestroyRethrows(r, outcome) ==
    /\ cpc[r] = "destroy"
    /\ attempts' = [attempts EXCEPT ![r] =
            Append(@, [publicId |-> ExtractPublicIdFromUrl(category[r].image), result |-> outcome])]
    /\ IF outcome = "throws"
       THEN /\ Answer(r, 500)
            /\ UNCHANGED slug
       ELSE /\ UNCHANGED cres
            /\ IF creq[r].op = "update"
               THEN AfterCleanup(r, creq[r].name, category[r])
               ELSE /\ cpc' = [cpc EXCEPT ![r] = "remove"]
                    /\ UNCHANGED slug
    /\ UNCHANGED <<categories, catIds, creq, category, started>>
    /\ UNCHANGED <<regVars, prodVars, fnVars>>
Destroy(r, outcome) ==
    /\ cpc[r] = "destroy"
    /\ attempts' = [attempts EXCEPT ![r] =
            Append(@, [publicId |-> ExtractPublicIdFromUrl(category[r].image), result |-> outcome])]
    /\ IF creq[r].op = "update"
       THEN AfterCleanup(r, creq[r].name, category[r])
       ELSE /\ cpc' = [cpc EXCEPT ![r] = "remove"]
            /\ UNCHANGED slug
    /\ UNCHANGED <<categories, catIds, creq, category, cres, started>>
    /\ UNCHANGED <<regVars, prodVars, fnVars>>

\* part_003 219-231: Category.findOne({ slug, _id: { $ne: id } })
UpdateFindSlug(r) ==
    /\ cpc[r] = "findSlug"
    /\ IF \E c \in categories : c.slug = slug[r] /\ c.id # creq[r].id
       THEN Answer(r, 400)
       ELSE /\ cpc' = [cpc EXCEPT ![r] = "update"]
            /\ UNCHANGED cres
    /\ UNCHANGED <<categories, catIds, creq, category, slug, attempts, started>>
    /\ UNCHANGED <<regVars, prodVars, fnVars>>

\* part_003 233-245: Category.findByIdAndUpdate(id, { name, slug, description,
\* image }, { new: true, runValidators: true }); a key whose value is undefined
\* is left out of the update
UpdateWrite(r) ==
    /\ cpc[r] = "update"
    /\ IF FindById(creq[r].id) = {}
       THEN /\ Answer(r, 200)
            /\ UNCHANGED categories
       ELSE LET old == CHOOSE c \in categories : c.id = creq[r].id
                doc == [id |-> old.id,
                        name |-> IF creq[r].name = Undefined THEN old.name ELSE creq[r].name,
                        slug |-> slug[r],
                        image |-> IF creq[r].image = Undefined THEN old.image ELSE creq[r].image]
            IN  IF CategoryWriteOutcome(doc, categories) = "ok"
                THEN /\ categories' = (categories \ {old}) \cup {doc}
                     /\ Answer(r, 200)
                ELSE /\ Answer(r, 500)
                     /\ UNCHANGED categories
    /\ UNCHANGED <<catIds, creq, category, slug, attempts, started>>
    /\ UNCHANGED <<regVars, prodVars, fnVars>>

\* part_003 249-268: DELETE /api/categories/:id up to the answer of Category.findById
DeleteCategory(r, id) ==
    /\ FreeCatSlot(r)
    /\ started < MaxRequests
    /\ started' = started + 1
    /\ id \in RequestIds
    /\ creq' = [creq EXCEPT ![r] = [op |-> "delete", id |-> id, name |-> Undefined, image |-> Undefined]]
    /\ IF FindById(id) = {}
       THEN /\ Answer(r, 404)
            /\ UNCHANGED category
       ELSE LET cat == CHOOSE c \in categories : c.id = id
            IN  /\ category' = [category EXCEPT ![r] = cat]
                /\ cpc' = [cpc EXCEPT ![r] = IF ReachesDestroy(cat.image) THEN "destroy" ELSE "remove"]
                /\ UNCHANGED cres
    /\ UNCHANGED <<categories, catIds, slug, attempts>>
    /\ UNCHANGED <<regVars, prodVars, fnVars>>

\* part_003 270-280: Category.findByIdAndDelete(id)
DeleteRemove(r) ==
    /\ cpc[r] = "remove"
    /\ categories' = {c \in categories : c.id # creq[r].id}
    /\ Answer(r, 200)
    /\ UNCHANGED <<catIds, creq, category, slug, attempts, started>>
    /\ UNCHANGED <<regVars, prodVars, fnVars>>

\* the slot is free for the next category request
CatRelease(r) ==
    /\ cpc[r] = "done"
    /\ started < MaxRequests
    /\ cpc' = [cpc EXCEPT ![r] = "idle"]
    /\ creq' = [creq EXCEPT ![r] = NoCatRequest]
    /\ category' = [category EXCEPT ![r] = NoCategory]
    /\ slug' = [slug EXCEPT ![r] = <<>>]
    /\ cres' = [cres EXCEPT ![r] = 0]
    /\ attempts' = [attempts EXCEPT ![r] = <<>>]
    /\ UNCHANGED <<categories, catIds, started>>
    /\ UNCHANGED <<regVars, prodVars, fnVars>>

NextCat ==
    \/ \E r \in Reqs, n \in CatNames, i \in Images : CreateCategory(r, n, i)
    \/ \E r \in Reqs : CreateSave(r)
    \/ \E r \in Reqs, id \in IdPool, n \in CatNames, i \in Images : UpdateCategory(r, id, n, i)
    \/ \E r \in Reqs, o \in DestroyOutcomes : Destroy(r, o)
    \/ \E r \in Reqs : UpdateFindSlug(r)
    \/ \E r \in Reqs : UpdateWrite(r)
    \/ \E r \in Reqs, id \in IdPool : DeleteCategory(r, id)
    \/ \E r \in Reqs : DeleteRemove(r)
    \/ \E r \in Reqs : CatRelease(r)

SpecCat == Init /\ [][NextCat]_vars

\* ============================================================== products
FreeProdSlot(r) == ppc[r] = "idle" /\ \A q \in Reqs : q < r => ppc[q] # "idle"

\* the product handler of slot r answers with `status` and `doc` in the body
ProdAnswer(r, status, doc) ==
    /\ ppc' = [ppc EXCEPT ![r] = "done"]
    /\ pres' = [pres EXCEPT ![r] = [status |-> status, doc |-> doc]]

ProductById(id) == {p \in products : p.id = id}

\* ids a request may name: those handed out so far and one that never was
ProdRequestIds == 1..(prodIds + 1)

\* ProductController.ts 9-46: POST /api/products
CreateProduct(r, fields, images) ==
    /\ FreeProdSlot(r)
    /\ started < MaxRequests
    /\ started' = started + 1
    \* the images of a request that fails validation are never read: one value stands for all
    /\ MissingProductFields(fields) => images = NoImages
    /\ IF MissingProductFields(fields)
       THEN /\ preq' = [preq EXCEPT ![r] = [op |-> "create", id |-> 0, fields |-> fields, images |-> <<>>]]
            /\ ProdAnswer(r, 400, NoProduct)
            /\ UNCHANGED <<products, prodIds>>
       ELSE LET doc == [id |-> prodIds + 1, fields |-> fields, images |-> ImageArray(images)]
            IN  /\ preq' = [preq EXCEPT ![r] =
                        [op |-> "create", id |-> 0, fields |-> fields, images |-> ImageArray(images)]]
                /\ products' = products \cup {doc}
                /\ prodIds' = prodIds + 1
                /\ ProdAnswer(r, 201, doc)
    /\ UNCHANGED <<product, pattempts>>
    /\ UNCHANGED <<regVars, catVars, fnVars>>

\* ProductController.ts 179-244: PUT /api/products/:id up to the answer of
\* Product.findById, the validation and the call of cloudinary.uploader.destroy
UpdateProduct(r, id, fields, images) ==
    /\ FreeProdSlot(r)
    /\ started < MaxRequests
    /\ started' = started + 1
    /\ id \in ProdRequestIds
    \* the body of a request for a missing id, and the images of a request that
    \* fails validation, are never read: one value stands for all
    /\ ProductById(id) = {} => (fields.name = "" /\ images = NoImages)
    /\ MissingProductFields(fields) => images = NoImages
    /\ IF ProductById(id) = {}
       THEN /\ preq' = [preq EXCEPT ![r] = [op |-> "update", id |-> id, fields |-> fields, images |-> <<>>]]
            /\ ProdAnswer(r, 404, NoProduct)
            /\ UNCHANGED <<product, pattempts>>
       ELSE LET existingProduct == CHOOSE p \in products : p.id = id
                newImageArray == ImageArray(images)
            IN  /\ product' = [product EXCEPT ![r] = existingProduct]
                /\ IF MissingProductFields(fields)
                   THEN /\ preq' = [preq EXCEPT ![r] =
                                [op |-> "update", id |-> id, fields |-> fields, images |-> <<>>]]
                        /\ ProdAnswer(r, 400, NoProduct)
                        /\ UNCHANGED pattempts
                   ELSE /\ preq' = [preq EXCEPT ![r] =
                                [op |-> "update", id |-> id, fields |-> fields, images |-> newImageArray]]
                        /\ UNCHANGED pres
                        /\ IF /\ FirstImageChanged(existingProduct.images, newImageArray)
                              /\ UploadIndex(existingProduct.images[1]) # 0
                           THEN /\ pattempts' = [pattempts EXCEPT ![r] =
                                        <<DestroyCall(existingProduct.images[1])>>]
                                /\ ppc' = [ppc EXCEPT ![r] = "destroy"]
                           ELSE /\ ppc' = [ppc EXCEPT ![r] = "update"]
                                /\ UNCHANGED pattempts
    /\ UNCHANGED <<products, prodIds>>
    /\ UNCHANGED <<regVars, catVars, fnVars>>

\* ProductController.ts 144-149, 236-242: call i of cloudinary.uploader.destroy
\* answers or throws; the throw is caught where the call was made
ProdDestroyRethrows(r, i, outcome) ==
    /\ ppc[r] = "destroy"
    /\ i \in Pending(pattempts[r])
    /\ pattempts' = [pattempts EXCEPT ![r] = [pattempts[r] EXCEPT ![i].result = outcome]]
    /\ IF outcome = "throws"
       THEN ProdAnswer(r, 500, NoProduct)
       ELSE /\ ppc' = [ppc EXCEPT ![r] =
                   IF preq[r].op = "update" THEN "update"
                   ELSE IF AllSettled([pattempts[r] EXCEPT ![i].result = outcome]) THEN "remove" ELSE "destroy"]
            /\ UNCHANGED pres
    /\ UNCHANGED <<products, prodIds, preq, product, started>>
    /\ UNCHANGED <<regVars, catVars, fnVars>>
ProdDestroy(r, i, outcome) ==
    /\ ppc[r] = "destroy"
    /\ i \in Pending(pattempts[r])
    /\ LET log == [pattempts[r] EXCEPT ![i].result = outcome]
       IN  /\ pattempts' = [pattempts EXCEPT ![r] = log]
           /\ ppc' = [ppc EXCEPT ![r] =
                  IF preq[r].op = "update" THEN "update"
                  ELSE IF AllSettled(log) THEN "remove" ELSE "destroy"]
    /\ UNCHANGED <<products, prodIds, preq, product, started>>
    /\ UNCHANGED pres
    /\ UNCHANGED <<regVars, catVars, fnVars>>

\* ProductController.ts 246-271: Product.findByIdAndUpdate
UpdateProductWrite(r) ==
    /\ ppc[r] = "update"
    /\ IF ProductById(preq[r].id) = {}
       THEN /\ ProdAnswer(r, 404, NoProduct)
            /\ UNCHANGED products
       ELSE LET old == CHOOSE p \in products : p.id = preq[r].id
                doc == [id |-> old.id, fields |-> preq[r].fields, images |-> preq[r].images]
            IN  /\ products' = (products \ {old}) \cup {doc}
                /\ ProdAnswer(r, 200, doc)
    /\ UNCHANGED <<prodIds, preq, product, pattempts, started>>
    /\ UNCHANGED <<regVars, catVars, fnVars>>

\* ProductController.ts 102-154: DELETE /api/products/:id up to the answer of
\* Product.findById and the calls of cloudinary.uploader.destroy
DeleteProduct(r, id) ==
    /\ FreeProdSlot(r)
    /\ started < MaxRequests
    /\ started' = started + 1
    /\ id \in ProdRequestIds
    /\ preq' = [preq EXCEPT ![r] = [op |-> "delete", id |-> id, fields |-> NoFields, images |-> <<>>]]
    /\ IF ProductById(id) = {}
       THEN /\ ProdAnswer(r, 404, NoProduct)
            /\ UNCHANGED <<product, pattempts>>
       ELSE LET found == CHOOSE p \in products : p.id = id
            IN  /\ product' = [product EXCEPT ![r] = found]
                /\ pattempts' = [pattempts EXCEPT ![r] = DestroyCalls(found.images)]
                /\ ppc' = [ppc EXCEPT ![r] =
                       IF AllSettled(DestroyCalls(found.images)) THEN "remove" ELSE "destroy"]
                /\ UNCHANGED pres
    /\ UNCHANGED <<products, prodIds>>
    /\ UNCHANGED <<regVars, catVars, fnVars>>

\* ProductController.ts 156-171: Product.findByIdAndDelete(id)
DeleteProductRemoveAnswersRead(r) ==
    /\ ppc[r] = "remove"
    /\ products' = products \ ProductById(preq[r].id)
    /\ ProdAnswer(r, 200, product[r])
    /\ UNCHANGED <<prodIds, preq, product, pattempts, started>>
    /\ UNCHANGED <<regVars, catVars, fnVars>>
DeleteProductRemove(r) ==
    /\ ppc[r] = "remove"
    /\ IF ProductById(preq[r].id) = {}
       THEN /\ ProdAnswer(r, 404, NoProduct)
            /\ UNCHANGED products
       ELSE LET deletedProduct == CHOOSE p \in products : p.id = preq[r].id
            IN  /\ products' = products \ {deletedProduct}
                /\ ProdAnswer(r, 200, deletedProduct)
    /\ UNCHANGED <<prodIds, preq, product, pattempts, started>>
    /\ UNCHANGED <<regVars, catVars, fnVars>>

\* the slot is free for the next product request
ProdRelease(r) ==
    /\ ppc[r] = "done"
    /\ started < MaxRequests
    /\ ppc' = [ppc EXCEPT ![r] = "idle"]
    /\ preq' = [preq EXCEPT ![r] = NoProdRequest]
    /\ product' = [product EXCEPT ![r] = NoProduct]
    /\ pres' = [pres EXCEPT ![r] = NoProdResponse]
    /\ pattempts' = [pattempts EXCEPT ![r] = <<>>]
    /\ UNCHANGED <<products, prodIds, started>>
    /\ UNCHANGED <<regVars, catVars, fnVars>>

NextProd ==
    \/ \E r \in Reqs, f \in ProductFields, i \in ProductImages : CreateProduct(r, f, i)
    \/ \E r \in Reqs, id \in IdPool, f \in ProductFields, i \in ProductImages : UpdateProduct(r, id, f, i)
    \/ \E r \in Reqs, i \in 1..3, o \in DestroyOutcomes : ProdDestroy(r, i, o)
    \/ \E r \in Reqs : UpdateProductWrite(r)
    \/ \E r \in Reqs, id \in IdPool : DeleteProduct(r, id)
    \/ \E r \in Reqs : DeleteProductRemove(r)
    \/ \E r \in Reqs : ProdRelease(r)

SpecProd == Init /\ [][NextProd]_vars

\* product requests that carry no image, with the prices and stocks of PricedFields
NextPriced ==
    \/ \E r \in Reqs, f \in PricedFields : CreateProduct(r, f, NoImages)
    \/ \E r \in Reqs, id \in IdPool, f \in PricedFields : UpdateProduct(r, id, f, NoImages)
    \/ \E r \in Reqs : UpdateProductWrite(r)
    \/ \E r \in Reqs : ProdRelease(r)

SpecPriced == Init /\ [][NextPriced]_vars

\* category requests that carry no image, with names that share a slug: "Gp",
\* "gp" and "G p!"
SlugNames == CatNames \cup {<<"g", "p">>}

NextCatNames ==
    \/ \E r \in Reqs, n \in SlugNames : CreateCategory(r, n, Undefined)
    \/ \E r \in Reqs : CreateSave(r)
    \/ \E r \in Reqs, id \in IdPool, n \in SlugNames : UpdateCategory(r, id, n, Undefined)
    \/ \E r \in Reqs : UpdateFindSlug(r)
    \/ \E r \in Reqs : UpdateWrite(r)
    \/ \E r \in Reqs, id \in IdPool : DeleteCategory(r, id)
    \/ \E r \in Reqs : DeleteRemove(r)
    \/ \E r \in Reqs : CatRelease(r)

SpecCatNames == Init /\ [][NextCatNames]_vars

\* ======================================================== text functions
\* texts of at most MaxTextLen characters over an alphabet with a capital, a
\* letter, a digit, a blank, a sign and a hyphen, and the name "Graphics Cards!!"
TextAlphabet == {"G", "p", "1", " ", "!", "-"}
GraphicsCards == <<"G", "r", "a", "p", "h", "i", "c", "s", " ", "C", "a", "r", "d", "s", "!", "!">>
NameTexts == UNION {[1..n -> TextAlphabet] : n \in 0..MaxTextLen} \cup {GraphicsCards}

\* part_003 77, 217: the slug of a name
ApplySlugify(name) ==
    /\ fn = ""
    /\ fn' = "slug"
    /\ arg' = name
    /\ result' = Slugify(name)
    /\ UNCHANGED <<regVars, catVars, prodVars, started>>

NextSlug == \E name \in NameTexts : ApplySlugify(name)

SpecSlug == Init /\ [][NextSlug]_vars

\* URLs of at most MaxSegments segments, and the URL
\* "https://host/x/image/upload/v1700000000/folder/pic.jpg"
UrlSegments ==
    {<<>>, Upload, <<"u", "p", "l", "o", "a", "d", "s">>, <<"v", "1">>, <<"v", "1", "2">>, <<"v">>, <<"v", "a">>, <<"a">>, <<"a", ".", "j">>, <<"b", ".", "c", ".", "d">>, <<".", "h">>}
ExampleUrl ==
    Join(<<<<"h", "t", "t", "p", "s", ":">>, <<>>, <<"h", "o", "s", "t">>, <<"x">>, <<"i", "m", "a", "g", "e">>, <<"u", "p", "l", "o", "a", "d">>, <<"v", "1", "7", "0", "0", "0", "0", "0", "0", "0", "0">>, <<"f", "o", "l", "d", "e", "r">>, <<"p", "i", "c", ".", "j", "p", "g">>>>, "/")
UrlTexts ==
    {Join(segments, "/") : segments \in UNION {[1..n -> UrlSegments] : n \in 1..MaxSegments}}
        \cup {ExampleUrl}

\* part_003 10-35, part_010 20-45, ProductController.ts 126-141: the public id of a URL
ApplyExtractPublicIdFromUrl(url) ==
    /\ fn = ""
    /\ fn' = "publicId"
    /\ arg' = url
    /\ result' = ExtractPublicIdFromUrl(url)
    /\ UNCHANGED <<regVars, catVars, prodVars, started>>

NextPublicId == \E url \in UrlTexts : ApplyExtractPublicIdFromUrl(url)

SpecPublicId == Init /\ [][NextPublicId]_vars

\* ------------------------------------------- deleteImageFromCloudinary
\* image URLs given to deleteImageFromCloudinary: absent, "", the image values
\* of the model and every URL of one or two segments
CleanupUrls ==
    Images \cup {Join(segments, "/") : segments \in UrlSegments \X UrlSegments}
           \cup {segment : segment \in UrlSegments}

\* what one call of deleteImageFromCloudinary did: the requests it sent to the
\* image host (to the backend's /cloudinary/delete for the client), and the
\* message of the error it raised to its caller (<<>>: it returned)
Cleanup(requests, message) == [calls |-> requests, raised |-> message]

MsgNoPublicId == <<"Could not extract public_id from image URL">>
MsgDeleteFailed == <<"Failed to delete image">>

\* the client's fetch of /cloudinary/delete: answered 2xx, answered with
\* another status, or rejected
FetchOutcomes == {"ok", "notOk", "rejects"}

\* part_003 41-58: deleteImageFromCloudinary of the category controller
DeleteImageFromCloudinary(imageUrl, outcome) ==
    IF ReachesDestroy(imageUrl)
    THEN Cleanup(<<[publicId |-> ExtractPublicIdFromUrl(imageUrl), result |-> outcome]>>, <<>>)
    ELSE Cleanup(<<>>, <<>>)

\* part_010 52-73: deleteImageFromCloudinary of the client's cloudinaryService
DeleteImageFromCloudinaryClient(imageUrl, outcome) ==
    LET publicId == ExtractPublicIdFromUrl(imageUrl)
    IN  IF Falsy(publicId)
        THEN Cleanup(<<>>, MsgNoPublicId)
        ELSE Cleanup(<<[publicId |-> publicId, result |-> outcome]>>,
                     IF outcome = "ok" THEN <<>> ELSE MsgDeleteFailed)

ApplyDeleteImageFromCloudinary(imageUrl, outcome) ==
    /\ fn = ""
    /\ fn' = "deleteImage"
    /\ arg' = imageUrl
    /\ result' = DeleteImageFromCloudinary(imageUrl, outcome)
    /\ UNCHANGED <<regVars, catVars, prodVars, started>>

ApplyDeleteImageFromCloudinaryClient(imageUrl, outcome) ==
    /\ fn = ""
    /\ fn' = "deleteImageClient"
    /\ arg' = imageUrl
    /\ result' = DeleteImageFromCloudinaryClient(imageUrl, outcome)
    /\ UNCHANGED <<regVars, catVars, prodVars, started>>

NextCleanup ==
    \/ \E url \in CleanupUrls, o \in DestroyOutcomes : ApplyDeleteImageFromCloudinary(url, o)
    \/ \E url \in CleanupUrls, o \in FetchOutcomes : ApplyDeleteImageFromCloudinaryClient(url, o)

SpecCleanup == Init /\ [][NextCleanup]_vars

\* ================================================================ listings
\* ProductController.ts 51-95 (getAllProducts), part_003 109-163
\* (getAllCategories): the two handlers run the same code on their collection

\* parseInt: a number, or NaN
NaN == [nan |-> TRUE, value |-> 0]
Number(n) == [nan |-> FALSE, value |-> n]

DigitChars == <<"0", "1", "2", "3", "4", "5", "6", "7", "8", "9">>
DigitValue(c) == (CHOOSE k \in 1..10 : DigitChars[k] = c) - 1

\* the value of the longest prefix of digits
RECURSIVE ParseDigits(_, _)
ParseDigits(chars, acc) ==
    IF chars = <<>> \/ chars[1] \notin Digits THEN acc
    ELSE ParseDigits(Tail(chars), 10 * acc + DigitValue(chars[1]))

\* parseInt(text): blanks, an optional sign, then digits; whatever follows the
\* digits is ignored; NaN without a digit (and for an absent parameter)
ParseInt(text) ==
    IF text = Undefined THEN NaN
    ELSE LET t == TrimStart(text)
             signed == t # <<>> /\ t[1] \in {"-", "+"}
             digits == IF signed THEN Tail(t) ELSE t
         IN  IF digits = <<>> \/ digits[1] \notin Digits THEN NaN
             ELSE Number((IF t[1] = "-" THEN -1 ELSE 1) * ParseDigits(digits, 0))

\* String(n) for n >= 0: how a client writes a page number into the query
RECURSIVE NumberText(_)
NumberText(n) ==
    IF n < 10 THEN <<DigitChars[n + 1]>>
    ELSE NumberText(n \div 10) \o <<DigitChars[(n % 10) + 1]>>

\* parseInt(...) || fallback: NaN and 0 are falsy
OrDefault(n, fallback) == IF n.nan \/ n.value = 0 THEN fallback ELSE n.value

\* (req.query.search as string) || ""
SearchOf(text) == IF Falsy(text) THEN <<>> ELSE text

\* { $regex: search, $options: "i" } for a search without regex operators
IsSubstring(needle, hay) ==
    \E i \in 1..(Len(hay) - Len(needle) + 1) : SubSeq(hay, i, i + Len(needle) - 1) = needle

\* the filter: empty when search.trim() is empty, else $or over the text fields
MatchesFilter(search, entry) ==
    \/ Trim(search) = <<>>
    \/ \E t \in entry.texts : IsSubstring(ToLowerCase(search), ToLowerCase(t))

CountDocuments(entries, search) == Cardinality({e \in entries : MatchesFilter(search, e)})

\* Math.ceil(total / limit); limit is never 0 here
TotalPagesFloor(total, limit) ==
    IF limit > 0 THEN total \div limit ELSE -(total \div (-limit))
TotalPages(total, limit) ==
    IF limit > 0 THEN (total + limit - 1) \div limit ELSE -(total \div (-limit))

\* .sort({ createdAt: -1 }): newest first; records created at the same instant
\* come in an order the database chooses for each query, here by ascending or
\* by descending _id
TieOrders == {"ascending", "descending"}
Before(e, f, tie) ==
    \/ e.createdAt > f.createdAt
    \/ e.createdAt = f.createdAt /\ (IF tie = "ascending" THEN e.id <= f.id ELSE e.id >= f.id)
RECURSIVE SortNewestFirst(_, _)
SortNewestFirst(entries, tie) ==
    IF entries = {} THEN <<>>
    ELSE LET first == CHOOSE e \in entries : \A f \in entries : Before(e, f, tie)
         IN  <<first>> \o SortNewestFirst(entries \ {first}, tie)

\* .skip(skip).limit(limit) on the sorted matches, for skip >= 0; the driver
\* sends a negative limit as its absolute value
SkipLimit(sorted, skip, limit) ==
    LET count == IF limit < 0 THEN -limit ELSE limit
        last == IF skip + count < Len(sorted) THEN skip + count ELSE Len(sorted)
    IN  IF skip >= Len(sorted) THEN <<>> ELSE SubSeq(sorted, skip + 1, last)

\* the query string of a listing request
Query(page, limit, search) == [page |-> page, limit |-> limit, search |-> search]

\* the handler up to the answer of countDocuments: its locals
Counted(entries, query) ==
    LET page == OrDefault(ParseInt(query.page), 1)
        limit == OrDefault(ParseInt(query.limit), 10)
        search == SearchOf(query.search)
        total == CountDocuments(entries, search)
    IN  [page |-> page, limit |-> limit, search |-> search, skip |-> (page - 1) * limit,
         total |-> total, totalPages |-> TotalPages(total, limit)]

\* the handler from the answer of find on: the response.  The database rejects
\* a negative skip, the handler answers 500
Found(locals, entries, tie) ==
    LET failed == locals.skip < 0
        matches == {e \in entries : MatchesFilter(locals.search, e)}
    IN  [status |-> IF failed THEN 500 ELSE 200,
         records |-> IF failed THEN <<>>
                     ELSE SkipLimit(SortNewestFirst(matches, tie), locals.skip, locals.limit),
         currentPage |-> locals.page,
         totalPages |-> locals.totalPages,
         totalCount |-> locals.total,
         hasNextPage |-> locals.page < locals.totalPages,
         hasPrevPage |-> locals.page > 1,
         limit |-> locals.limit,
         skip |-> locals.skip]

\* one listing of a collection that no request changes meanwhile
GetAll(entries, query, tie) == Found(Counted(entries, query), entries, tie)

\* ---- collections that are listed
Rtx == <<"R", "T", "X">>
Gtx == <<"g", "t", "x">>
Entry(id, createdAt, name) == [id |-> id, createdAt |-> createdAt, texts |-> {name}]

\* n records named "RTX", created one after the other
Uniform(n) == {Entry(i, i, Rtx) : i \in 1..n}

\* up to three records named "RTX" or "gtx", created at instant 1 or 2
Mixed ==
    UNION {{{Entry(i, f[i][1], f[i][2]) : i \in 1..k} : f \in [1..k -> {1, 2} \X {Rtx, Gtx}]} : k \in 1..3}

Catalogs ==
    {Uniform(n) : n \in 0..MaxRecords} \cup Mixed
        \cup {Uniform(MaxRecords) \cup {Entry(MaxRecords + 1, 3, Gtx), Entry(MaxRecords + 2, MaxRecords + 2, Gtx)}}

\* query parameters: absent, not a number, zero, negative, positive
PageTexts == {Undefined, <<"a">>, <<"0">>, <<"-", "1">>, <<"1">>, <<"2">>, <<"3">>}
LimitTexts == {Undefined, <<"0">>, <<"-", "2">>, <<"1">>, <<"2">>, <<"1", "0">>, <<"2", "x">>}
SearchTexts == {Undefined, <<" ">>, <<"r", "t", "x">>, <<"t", "X">>, <<"z">>}
Queries == {Query(p, l, s) : p \in PageTexts, l \in LimitTexts, s \in SearchTexts}

ApplyGetAllProducts(catalog, query, tie) ==
    /\ fn = ""
    /\ fn' = "getAllProducts"
    /\ arg' = [collection |-> catalog, query |-> query]
    /\ result' = GetAll(catalog, query, tie)
    /\ UNCHANGED <<regVars, catVars, prodVars, started>>

ApplyGetAllCategories(catalog, query, tie) ==
    /\ fn = ""
    /\ fn' = "getAllCategories"
    /\ arg' = [collection |-> catalog, query |-> query]
    /\ result' = GetAll(catalog, query, tie)
    /\ UNCHANGED <<regVars, catVars, prodVars, started>>

\* a client lists page 1, then every page up to the totalPages it was told,
\* the collection staying as it is
ApplyWalk(catalog, limit, search, ties) ==
    LET first == GetAll(catalog, Query(NumberText(1), limit, search), ties[1])
    IN  /\ fn = ""
        /\ first.status = 200
        /\ first.totalPages \in 1..MaxWalk
        /\ fn' = "walk"
        /\ arg' = [collection |-> catalog, query |-> Query(Undefined, limit, search)]
        /\ result' = [p \in 1..first.totalPages |->
                          GetAll(catalog, Query(NumberText(p), limit, search), ties[p])]
        /\ UNCHANGED <<regVars, catVars, prodVars, started>>

\* the collections a first call may find; no second call is made.  The
\* category collections are the small ones
Listed == IF fn = "" THEN Catalogs ELSE {}
ListedCategories == IF fn = "" THEN Mixed \cup {Uniform(0)} ELSE {}

NextPage ==
    \/ \E c \in Listed, q \in Queries, t \in TieOrders : ApplyGetAllProducts(c, q, t)
    \/ \E c \in ListedCategories, q \in Queries, t \in TieOrders : ApplyGetAllCategories(c, q, t)
    \/ \E c \in Listed, l \in LimitTexts \ {Undefined}, s \in SearchTexts, ties \in [1..MaxWalk -> TieOrders] :
           ApplyWalk(c, l, s, ties)

SpecPage == Init /\ [][NextPage]_vars

\* ---- a listing while other requests change the collection
\* the records of the two collections as the listing sees them: created in
\* the order of their _id, searched in name and brand (products), in name and
\* slug (categories); a product text of the model is one character long
ProductEntries ==
    {[id |-> p.id, createdAt |-> p.id, texts |-> {<<p.fields.name>>, <<p.fields.brand>>}] : p \in products}
CategoryEntries ==
    {[id |-> c.id, createdAt |-> c.id, texts |-> {c.name, c.slug}] : c \in categories}

ConcurrentQueries ==
    {Query(p, l, s) : p \in {<<"1">>, <<"2">>}, l \in {<<"1">>, <<"2">>}, s \in {Undefined, <<"N">>, <<"g">>}}

\* ProductController.ts 51-71: GET /api/products up to the answer of countDocuments
GetAllProducts(query) ==
    /\ fn = ""
    /\ fn' = "products.find"
    /\ arg' = query
    /\ result' = Counted(ProductEntries, query)
    /\ UNCHANGED <<regVars, catVars, prodVars, started>>

\* ProductController.ts 73-94: the answer of find, and the response
GetAllProductsFind ==
    /\ fn = "products.find"
    /\ fn' = "products.listed"
    /\ result' = Found(result, ProductEntries, "ascending")
    /\ UNCHANGED arg
    /\ UNCHANGED <<regVars, catVars, prodVars, started>>

\* part_003 109-137: GET /api/categories up to the answer of countDocuments
GetAllCategories(query) ==
    /\ fn = ""
    /\ fn' = "categories.find"
    /\ arg' = query
    /\ result' = Counted(CategoryEntries, query)
    /\ UNCHANGED <<regVars, catVars, prodVars, started>>

\* part_003 139-162: the answer of find, and the response
GetAllCategoriesFind ==
    /\ fn = "categories.find"
    /\ fn' = "categories.listed"
    /\ result' = Found(result, CategoryEntries, "ascending")
    /\ UNCHANGED arg
    /\ UNCHANGED <<regVars, catVars, prodVars, started>>

\* one listing, and create and delete requests without images beside it
NextListing ==
    \/ \E q \in ConcurrentQueries : GetAllProducts(q)
    \/ GetAllProductsFind
    \/ \E q \in ConcurrentQueries : GetAllCategories(q)
    \/ GetAllCategoriesFind
    \/ \E r \in Reqs, f \in ProductFields : CreateProduct(r, f, NoImages)
    \/ \E r \in Reqs, id \in IdPool : DeleteProduct(r, id)
    \/ \E r \in Reqs : DeleteProductRemove(r)
    \/ \E r \in Reqs : ProdRelease(r)
    \/ \E r \in Reqs, n \in CatNames : CreateCategory(r, n, Undefined)
    \/ \E r \in Reqs : CreateSave(r)
    \/ \E r \in Reqs, id \in IdPool : DeleteCategory(r, id)
    \/ \E r \in Reqs : DeleteRemove(r)
    \/ \E r \in Reqs : CatRelease(r)

SpecListing == Init /\ [][NextListing]_vars

\* the category and the product handlers of the same API, side by side
NextStore == NextCat \/ NextProd

SpecStore == Init /\ [][NextStore]_vars

\* ======================================================= registration claims
\* a document of `coll` has the username or the email of body `b`
Matches(coll, b) == \E u \in coll : u.username = b.username \/ u.email = b.email

KcAccount(id) == CHOOSE a \in kcAccounts : a.id = id

\* the provider failure of a request by the status the code branches on
FailureClass(thrown) ==
    IF thrown.status = 409 THEN "conflict" ELSE IF thrown.status = 401 THEN "auth" ELSE "other"

\* C1: a request with non-empty username, email and password, for which the
\* uniqueness check found no local User and createUserInKeycloak returned an id,
\* ends by returning a User whose keycloakId is that id (role 'user'), and the
\* User collection then holds exactly one more record than before: that user.
C1_RegisterReturnsProvisionedUser ==
    [][\A r \in Reqs :
        (/\ pc[r] # "done" /\ pc'[r] = "done"
         /\ ~MissingFields(body[r]) /\ ~Matches(seen[r], body[r]) /\ userId[r] # "")
        => /\ response'[r].error = NoError
           /\ response'[r].user = [keycloakId |-> userId[r], username |-> body[r].username,
                                   email |-> body[r].email, role |-> "user"]
           /\ response'[r].user \notin users
           /\ users' = users \cup {response'[r].user}
           /\ Cardinality(users') = Cardinality(users) + 1]_vars

C1_Witness ==
    \E r \in Reqs :
        /\ pc[r] = "done" /\ stored[r] # NoUser /\ seen[r] # {}
        /\ ~Matches(seen[r], body[r])
        /\ response[r].user.keycloakId = userId[r]

\* C2: when the User collection held a record with the requested username or
\* the requested email at the uniqueness check, the request has ended with the
\* 'already exists' error, has called no endpoint of the identity provider and
\* has saved nothing.
C2_ExistingUserRejectedBeforeProvider ==
    \A r \in Reqs :
        Matches(seen[r], body[r])
        => /\ pc[r] = "done"
           /\ response[r].error = Err("Error", MsgLocalExists)
           /\ response[r].user = NoUser
           /\ calls[r] = <<>>
           /\ stored[r] = NoUser
           /\ seen[r] \subseteq users

C2_Witness ==
    \E r \in Reqs :
        /\ pc[r] = "done"
        /\ \E u \in seen[r] : u.username = body[r].username /\ u.email # body[r].email
        /\ calls[r] = <<>>

\* C3: when createUserInKeycloak failed (at the token request, at the account
\* creation or at reading the id from the Location header), registerUser has
\* failed and this request has created no local User record.
C3_ProvisioningFailureLeavesNoUser ==
    \A r \in Reqs :
        kcError[r] # NoThrown
        => /\ pc[r] = "done"
           /\ response[r].error # NoError
           /\ response[r].user = NoUser
           /\ response[r].status # 201
           /\ stored[r] = NoUser

C3_Witness ==
    \E r \in Reqs :
        /\ pc[r] = "done"
        /\ kcError[r].message = MsgNoUserId
        /\ calls[r] = <<"token", "users">>
        /\ \E a \in kcAccounts : a.username = body[r].username
        /\ stored[r] = NoUser

\* C4: every local User's keycloakId is the id of an account of the identity
\* provider, and no two local Users have the same keycloakId.
C4_UsersBackedByDistinctAccounts ==
    /\ \A u \in users : \E a \in kcAccounts : a.id = u.keycloakId
    /\ \A u1, u2 \in users : u1.keycloakId = u2.keycloakId => u1 = u2

C4_Witness ==
    /\ users # {}
    /\ \E a \in kcAccounts : \A u \in users : u.keycloakId # a.id
    /\ \E r \in Reqs : pc[r] = "done" /\ stored[r] \in users

\* C5: two requests with the same username (or the same email) that both passed
\* the uniqueness check do not both save a record; at most one local User has a
\* given username and at most one a given email.
C5_RacingDuplicatesStoreOne ==
    /\ \A u1, u2 \in users : (u1.username = u2.username \/ u1.email = u2.email) => u1 = u2
    /\ \A r1, r2 \in Reqs :
          (/\ r1 # r2
           /\ body[r1].username = body[r2].username \/ body[r1].email = body[r2].email)
          => ~(stored[r1] # NoUser /\ stored[r2] # NoUser)

C5_Witness ==
    \E r1, r2 \in Reqs :
        /\ r1 # r2
        /\ body[r1].username = body[r2].username
        /\ seen[r1] = seen[r2] /\ ~existingUser[r1] /\ ~existingUser[r2]
        /\ calls[r1] # <<>> /\ calls[r2] # <<>>
        /\ pc[r1] = "done" /\ pc[r2] = "done"
        /\ stored[r1] # NoUser
        /\ kcError[r2].status = 409

\* C6: when the save failed after the provider account was created, the account
\* is still there, the request made no further provider call, no local record
\* has that account's id, and the caller gets 'Invalid user data provided' for a
\* validation failure and 'Registration failed. Please try again.' otherwise.
C6_PersistFailureNotCompensated ==
    \A r \in Reqs :
        (pc[r] = "done" /\ userId[r] # "" /\ stored[r] = NoUser)
        => /\ \E a \in kcAccounts : a.id = userId[r]
           /\ \A u \in users : u.keycloakId # userId[r]
           /\ calls[r] \in {<<"token", "users", "roles">>, <<"token", "users", "roles", "role-mappings">>}
           /\ response[r].user = NoUser
           /\ response[r].error.message =
                 IF body[r].username = "" \/ body[r].email = ""
                 THEN MsgInvalidData ELSE MsgRegistrationFailed

C6_Witness ==
    \E r \in Reqs :
        /\ pc[r] = "done" /\ userId[r] # "" /\ stored[r] = NoUser
        /\ response[r].error.message = MsgInvalidData
        /\ \E a \in kcAccounts : a.id = userId[r]

\* C7 (as stated): failures of the account creation of different classes (409,
\* 401, any other) give different errors at the caller of registerUser.
C7_Original ==
    \A r1, r2 \in Reqs :
        (/\ kcError[r1] # NoThrown /\ kcError[r2] # NoThrown
         /\ calls[r1] = <<"token", "users">> /\ calls[r2] = <<"token", "users">>
         /\ FailureClass(kcError[r1]) # FailureClass(kcError[r2]))
        => response[r1].error # response[r2].error

\* C7 (amended): createUserInKeycloak maps a provider failure by status: 409 to
\* 'User already exists in Keycloak', 401 to 'Keycloak authentication failed',
\* any other to a 'Keycloak error' message, three different errors.  registerUser
\* re-raises the 409 error unchanged and raises 'Failed to create user in
\* authentication service' for a 401 and for any other failure alike (an error
\* whose provider text contains 'already exists' is re-raised unchanged).
C7_ProviderFailureMapping ==
    /\ \A r \in Reqs :
          kcError[r] # NoThrown
          => /\ CASE FailureClass(kcError[r]) = "conflict" -> raised[r].message = MsgKcExists
                  [] FailureClass(kcError[r]) = "auth" -> raised[r].message = MsgKcAuth
                  [] OTHER -> /\ raised[r].message[1] = "Keycloak"
                              /\ raised[r].message[2] \in {"error (", "error:"}
             /\ response[r].error.message =
                   CASE FailureClass(kcError[r]) = "conflict" -> MsgKcExists
                     [] FailureClass(kcError[r]) = "auth" -> MsgAuthServiceFailed
                     [] OTHER -> IF Includes(kcError[r].data, "already exists")
                                 THEN raised[r].message ELSE MsgAuthServiceFailed
    /\ \A r1, r2 \in Reqs :
          (/\ kcError[r1] # NoThrown /\ kcError[r2] # NoThrown
           /\ FailureClass(kcError[r1]) # FailureClass(kcError[r2]))
          => raised[r1] # raised[r2]

C7_Witness ==
    \E r1, r2 \in Reqs :
        /\ kcError[r1].status = 401 /\ kcError[r2].status = 500
        /\ calls[r1] = <<"token", "users">> /\ calls[r2] = <<"token", "users">>
        /\ raised[r1] # raised[r2]
        /\ response[r1].error = response[r2].error

\* C8: when the new account ended without the 'user' role (the role lookup
\* failed, no role is named 'user', or the assignment failed), createUserInKeycloak
\* raised no error and registerUser saved and returned the local record with the
\* account's id.
C8_RoleFailureDoesNotFailRegistration ==
    \A r \in Reqs :
        (userId[r] # "" /\ KcAccount(userId[r]).roles = {})
        => /\ raised[r] = NoError
           /\ pc[r] \in {"roles", "assign", "save", "done"}
           /\ pc[r] = "done"
              => /\ response[r].error = NoError
                 /\ response[r].user = stored[r]
                 /\ stored[r].keycloakId = userId[r]
                 /\ stored[r] \in users

C8_Witness ==
    \E r \in Reqs :
        /\ pc[r] = "done" /\ userId[r] # ""
        /\ KcAccount(userId[r]).roles = {}
        /\ calls[r] = <<"token", "users", "roles", "role-mappings">>
        /\ stored[r] \in users

\* C9: a POST /auth/register refused because the username or email already
\* exists, or because a field is missing, is answered with status 400.
C9_DuplicateAnswered400 ==
    \A r \in Reqs :
        (via[r] = "http" /\ pc[r] = "done" /\ (MissingFields(body[r]) \/ Matches(seen[r], body[r])))
        => response[r].status = 400

\* ============================================================ category claims
\* an updateCategory request that was answered 200 for a category with a stored
\* image and that supplied an image
ImageUpdateDone(r) ==
    /\ creq[r].op = "update" /\ cpc[r] = "done" /\ cres[r] = 200
    /\ Truthy(category[r].image) /\ Truthy(creq[r].image)

C11_RemovalTriggersCleanup ==
    \A r \in Reqs :
        (/\ creq[r].op = "update" /\ cpc[r] = "done" /\ cres[r] = 200
         /\ Falsy(creq[r].image) /\ ReachesDestroy(category[r].image))
        => /\ Len(attempts[r]) = 1
           /\ attempts[r][1].publicId = ExtractPublicIdFromUrl(category[r].image)

\* ========================================================== store claims
\* C12 (as stated): a category or product request answered 400 or 404 issued no
\* remote delete attempt, and the step that answers it writes or removes no
\* database record.
C12_RejectedWithoutSideEffects ==
    [][/\ \A r \in Reqs :
             (cpc[r] # "done" /\ cpc'[r] = "done" /\ cres'[r] \in {400, 404})
             => (attempts'[r] = <<>> /\ categories' = categories)
       /\ \A r \in Reqs :
             (ppc[r] # "done" /\ ppc'[r] = "done" /\ pres'[r].status \in {400, 404})
             => (pattempts'[r] = <<>> /\ products' = products)]_vars

\* ======================================================== product claims
\* the step in which updateProduct's findByIdAndUpdate is answered, for a
\* product that existed when the request arrived and a body that passed validation
UpdateProductAnswered(r) == preq[r].op = "update" /\ ppc[r] = "update" /\ ppc'[r] = "done"

\* C13 (as stated): updateProduct issues a remote delete attempt for the stored
\* first image exactly when the stored and the new images list are both non-empty
\* and their first elements differ, otherwise none; in every case the update is
\* then persisted with the new images list.
C13_Original ==
    [][\A r \in Reqs :
          UpdateProductAnswered(r)
          => /\ IF /\ Len(product[r].images) > 0 /\ Len(preq[r].images) > 0
                   /\ product[r].images[1] # preq[r].images[1]
                THEN /\ Len(pattempts[r]) = 1
                     /\ pattempts[r][1].imageUrl = product[r].images[1]
                ELSE pattempts[r] = <<>>
             /\ pres'[r].status = 200
             /\ pres'[r].doc.images = preq[r].images
             /\ pres'[r].doc \in products']_vars

\* C13 (amended): updateProduct issues a remote delete attempt for the stored
\* first image exactly when the stored and the new images list are both non-empty,
\* their first elements are non-empty and differ, and the stored first image has
\* an 'upload' segment; otherwise it issues none.  The update is then persisted
\* with the new images list and answered 200 if the product still exists when
\* findByIdAndUpdate runs; if it was deleted meanwhile the answer is 404 and
\* nothing is written.
C13_FirstImageCleanupThenPersist ==
    [][\A r \in Reqs :
          UpdateProductAnswered(r)
          => /\ IF /\ Len(product[r].images) > 0 /\ Len(preq[r].images) > 0
                   /\ Truthy(product[r].images[1]) /\ Truthy(preq[r].images[1])
                   /\ product[r].images[1] # preq[r].images[1]
                   /\ UploadIndex(product[r].images[1]) # 0
                THEN /\ Len(pattempts[r]) = 1
                     /\ pattempts[r][1].imageUrl = product[r].images[1]
                     /\ pattempts[r][1].publicId = ExtractPublicIdFromUrl(product[r].images[1])
                     /\ pattempts[r][1].result # "pending"
                ELSE pattempts[r] = <<>>
             /\ IF ProductById(preq[r].id) # {}
                THEN /\ pres'[r].status = 200
                     /\ pres'[r].doc.images = preq[r].images
                     /\ pres'[r].doc.fields = preq[r].fields
                     /\ pres'[r].doc \in products'
                     /\ Cardinality(products') = Cardinality(products)
                ELSE /\ pres'[r].status = 404
                     /\ products' = products]_vars

C13_Witness ==
    \E r \in Reqs :
        /\ preq[r].op = "update" /\ ppc[r] = "done" /\ pres[r].status = 200
        /\ product[r].images = <<UrlVersioned, UrlForeign, UrlPlain>>
        /\ preq[r].images = <<UrlForeign, UrlPlain>>
        /\ Len(pattempts[r]) = 1
        /\ pattempts[r][1].publicId = <<"c", "/", "a">>
        /\ pres[r].doc.images = preq[r].images
        /\ pres[r].doc \in products

\* the image URLs of a document that have an 'upload' segment
UploadUrls(images) == {images[i] : i \in {k \in 1..Len(images) : UploadIndex(images[k]) # 0}}

\* a deleteProduct request that found its product
DeleteFound(r) == preq[r].op = "delete" /\ product[r] # NoProduct

\* C14: a deleteProduct that found its product issues one remote delete attempt
\* per stored URL with an 'upload' segment, for that URL's asset id; whichever of
\* them throw, all of them are made and completed, the request is not answered
\* with an error, and the record is gone from the database when it is answered;
\* the step that removes the record answers 200 with the removed record.
C14_DeleteProductSurvivesThrows ==
    /\ [](\A r \in Reqs :
            (DeleteFound(r) /\ ppc[r] \in {"destroy", "remove", "done"})
            => /\ Len(pattempts[r]) = Cardinality({k \in 1..Len(product[r].images) :
                                                      UploadIndex(product[r].images[k]) # 0})
               /\ {a.imageUrl : a \in {pattempts[r][i] : i \in 1..Len(pattempts[r])}}
                      = UploadUrls(product[r].images)
               /\ \A i \in 1..Len(pattempts[r]) :
                      pattempts[r][i].publicId = ExtractPublicIdFromUrl(pattempts[r][i].imageUrl)
               /\ ppc[r] = "done"
                  => /\ AllSettled(pattempts[r])
                     /\ pres[r].status \in {200, 404}
                     /\ pres[r].status = 200 => pres[r].doc.id = preq[r].id
                     /\ ProductById(preq[r].id) = {})
    /\ [][\A r \in Reqs :
            (DeleteFound(r) /\ ppc[r] = "remove" /\ ppc'[r] = "done" /\ ProductById(preq[r].id) # {})
            => /\ pres'[r].status = 200
               /\ pres'[r].doc \in products
               /\ products' = products \ {pres'[r].doc}]_vars

C14_Witness ==
    \E r \in Reqs :
        /\ DeleteFound(r) /\ ppc[r] = "done" /\ pres[r].status = 200
        /\ product[r].images = <<UrlVersioned, UrlForeign, UrlPlain>>
        /\ Len(pattempts[r]) = 2
        /\ pattempts[r][1].result = "throws" /\ pattempts[r][2].result = "answers"
        /\ pres[r].doc = product[r]
        /\ products = {}

\* C15: within one deleteProduct request the record is removed only after every
\* remote delete attempt of the request has been answered or has thrown: the
\* request waits in Promise.all while an attempt is in flight, and none is in
\* flight at the step in which its findByIdAndDelete runs.
C15_RemoveAfterAllAttemptsSettled ==
    /\ [](\A r \in Reqs :
            (DeleteFound(r) /\ ppc[r] \in {"remove", "done"}) => AllSettled(pattempts[r]))
    /\ [][\A r \in Reqs :
            (DeleteFound(r) /\ ppc[r] # "done" /\ ppc'[r] = "done")
            => /\ ppc[r] = "remove"
               /\ Pending(pattempts[r]) = {}
               /\ pattempts'[r] = pattempts[r]]_vars
    /\ [][\A r \in Reqs :
            (DeleteFound(r) /\ ppc[r] = "destroy" /\ Pending(pattempts[r]) # {})
            => \A p \in products : p.id = preq[r].id /\ p \notin products' => ppc'[r] = ppc[r]]_vars

C15_Witness ==
    \E r \in Reqs :
        /\ DeleteFound(r) /\ ppc[r] = "done" /\ pres[r].status = 200
        /\ Len(pattempts[r]) = 2
        /\ \A i \in 1..2 : pattempts[r][i].result = "throws"
        /\ ProductById(preq[r].id) = {}

\* ========================================== store claims: image cleanup
\* the step in which a remote delete call of request r is answered or throws
CatAttemptSettles(r) == cpc[r] = "destroy" /\ attempts'[r] # attempts[r]
ProdAttemptSettles(r) == ppc[r] = "destroy" /\ pattempts'[r] # pattempts[r]

\* C16: for updateCategory, deleteCategory, updateProduct and deleteProduct the
\* step in which a remote delete call is answered or throws answers nothing to
\* the caller and changes no database record, and where the handler goes next
\* (the slug check, the primary write, or waiting for the other calls) is fixed
\* by the request and the loaded record, whatever the outcome of the call.
C16_CleanupOutcomeNotObservable ==
    /\ [][\A r \in Reqs :
            CatAttemptSettles(r)
            => /\ categories' = categories /\ catIds' = catIds
               /\ cres'[r] = cres[r] /\ cres[r] = 0
               /\ cpc'[r] = IF creq[r].op = "delete" THEN "remove"
                            ELSE IF Truthy(creq[r].name) /\ creq[r].name # category[r].name
                            THEN "findSlug" ELSE "update"
               /\ slug'[r] = IF creq[r].op = "delete" THEN slug[r]
                             ELSE IF Truthy(creq[r].name) /\ creq[r].name # category[r].name
                             THEN Slugify(creq[r].name) ELSE category[r].slug]_vars
    /\ [][\A r \in Reqs :
            ProdAttemptSettles(r)
            => /\ products' = products /\ prodIds' = prodIds
               /\ pres'[r] = pres[r] /\ pres[r].status = 0
               /\ ppc'[r] = IF preq[r].op = "update" THEN "update"
                            ELSE IF Cardinality(Pending(pattempts[r])) = 1 THEN "remove"
                            ELSE "destroy"]_vars

C16_Witness ==
    \E r \in Reqs :
        /\ creq[r].op = "update" /\ cpc[r] = "done" /\ cres[r] = 200
        /\ Len(attempts[r]) = 1 /\ attempts[r][1].result = "throws"
        /\ creq[r].image = UrlForeign
        /\ \E c \in categories : c.id = creq[r].id /\ c.image = UrlForeign
        /\ \E q \in Reqs : ppc[q] = "done" /\ pres[q].status = 201

\* ================================================ category name claims
\* C17: no two stored categories share a name, and no two share a slug.
C17_NamesAndSlugsUnique ==
    \A c1, c2 \in categories :
        c1 # c2 => (c1.id # c2.id /\ c1.name # c2.name /\ c1.slug # c2.slug)

C17_Witness ==
    /\ Cardinality(categories) = 2
    /\ \E r \in Reqs :
          /\ creq[r].op = "create" /\ cpc[r] = "done" /\ cres[r] = 500
          /\ creq[r].name = <<"g", "p">>
          /\ \E c \in categories : c.name = <<"G", "p">> /\ c.slug = slug[r]

\* C18 (as stated): every stored category's slug is the slug transform of its
\* stored name.
C18_SlugDerivedFromName ==
    \A c \in categories : c.slug = Slugify(c.name)

\* ================================================== text function claims
\* C19: the slug transform gives the same result for the same name, applying it
\* to its own result changes nothing, the result has only characters of a-z, 0-9
\* and the hyphen, never starts or ends with a hyphen and never has two adjacent
\* hyphens, and the slug of "Graphics Cards!!" is "graphics-cards".
C19_SlugIdempotentAndTrimmed ==
    fn = "slug"
    => /\ result = Slugify(arg)
       /\ Slugify(result) = result
       /\ \A i \in 1..Len(result) : IsSlugChar(result[i]) \/ result[i] = "-"
       /\ result # <<>> => (result[1] # "-" /\ result[Len(result)] # "-")
       /\ \A i \in 1..(Len(result) - 1) : ~(result[i] = "-" /\ result[i + 1] = "-")
       /\ arg = GraphicsCards => result = <<"g", "r", "a", "p", "h", "i", "c", "s", "-", "c", "a", "r", "d", "s">>

C19_Witness ==
    /\ fn = "slug"
    /\ arg = <<"-", "G", "!">>
    /\ result = <<"g">>

\* a leading 'v<digits>/' and a final '.<extension>'
IsVersionPrefix(p) ==
    /\ Len(p) >= 3 /\ p[1] = "v" /\ p[Len(p)] = "/"
    /\ \A j \in 2..(Len(p) - 1) : p[j] \in Digits
IsExtension(e) ==
    /\ Len(e) >= 2 /\ e[1] = "."
    /\ \A j \in 2..Len(e) : e[j] \notin {"/", "."}

\* C20: the public id of a URL with no segment equal to 'upload' is null;
\* otherwise the segments after the first 'upload' segment, joined by '/', are a
\* 'v<digits>/' prefix (if they start with one), then the public id, then a
\* final '.<extension>' (if what follows the prefix ends with one); the public
\* id of "https://host/x/image/upload/v1700000000/folder/pic.jpg" is "folder/pic".
C20_PublicIdOfUrl ==
    fn = "publicId"
    => LET segments == Split(arg, "/")
           uploads == {k \in 1..Len(segments) : segments[k] = Upload}
       IN  /\ uploads = {} <=> result = Null
           /\ uploads # {}
              => LET first == CHOOSE k \in uploads : \A j \in uploads : k <= j
                     path == Join(SubSeq(segments, first + 1, Len(segments)), "/")
                     prefixes == {a \in 0..Len(path) : IsVersionPrefix(SubSeq(path, 1, a))}
                 IN  \E a \in 0..Len(path), b \in 0..Len(path) :
                        /\ a <= b
                        /\ path = SubSeq(path, 1, a) \o result \o SubSeq(path, b + 1, Len(path))
                        /\ Len(result) = b - a
                        /\ IF prefixes = {} THEN a = 0 ELSE a \in prefixes
                        /\ IF \E c \in a..Len(path) : IsExtension(SubSeq(path, c + 1, Len(path)))
                           THEN IsExtension(SubSeq(path, b + 1, Len(path)))
                           ELSE b = Len(path)
           /\ arg = ExampleUrl => result = <<"f", "o", "l", "d", "e", "r", "/", "p", "i", "c">>

C20_Witness ==
    /\ fn = "publicId"
    /\ arg = ExampleUrl
    /\ result = <<"f", "o", "l", "d", "e", "r", "/", "p", "i", "c">>

\* =========================================================== later claims
\* C21: deleteImageFromCloudinary (deleteAssetByUrl), called with a URL from
\* which extractPublicIdFromUrl yields null, is a no-op: it sends no request to
\* the image host and raises no error to its caller.
C21_NoPublicIdIsNoOp ==
    (fn \in {"deleteImage", "deleteImageClient"} /\ ExtractPublicIdFromUrl(arg) = Null)
        => result = Cleanup(<<>>, <<>>)

\* C22: a listing with page >= 1 and limit >= 1 over totalCount matching records
\* answers with exactly max(0, min(limit, totalCount - (page-1)*limit)) records,
\* totalPages = ceil(totalCount / limit), hasNextPage = (page < totalPages),
\* hasPrevPage = (page > 1), and a totalCount that depends on the collection
\* and the search only; so a page beyond totalPages is empty with the same
\* totalPages and totalCount, and 15 matches with page 2 and limit 10 give 5
\* records, hasNextPage false, hasPrevPage true, totalPages 2.
C22_PageWindow ==
    (fn \in {"getAllProducts", "getAllCategories"} /\ result.currentPage >= 1 /\ result.limit >= 1)
        => LET page == result.currentPage
               limit == result.limit
               totalCount == Cardinality({e \in arg.collection :
                                             MatchesFilter(SearchOf(arg.query.search), e)})
               rest == totalCount - (page - 1) * limit
           IN  /\ result.status = 200
               /\ Len(result.records) = (IF rest < 0 THEN 0 ELSE IF rest < limit THEN rest ELSE limit)
               /\ result.totalCount = totalCount
               /\ (result.totalPages - 1) * limit < totalCount
               /\ totalCount <= result.totalPages * limit
               /\ result.hasNextPage = (page < result.totalPages)
               /\ result.hasPrevPage = (page > 1)
               /\ (page > result.totalPages => result.records = <<>>)
               /\ (totalCount = 15 /\ page = 2 /\ limit = 10)
                      => /\ Len(result.records) = 5
                         /\ result.hasNextPage = FALSE
                         /\ result.hasPrevPage = TRUE
                         /\ result.totalPages = 2

\* page 2 with limit 10 of the 15 records that match "rtx", among 17
C22_Witness ==
    /\ fn = "getAllProducts"
    /\ arg.query = Query(<<"2">>, <<"1", "0">>, <<"r", "t", "x">>)
    /\ Cardinality(arg.collection) = 17
    /\ result.totalCount = 15
    /\ Len(result.records) = 5

\* C23: whatever the page and limit parameters of a listing are (absent, not a
\* number, zero, negative, positive), the page and the limit from which the
\* handler computes skip and totalPages are positive, and skip is not negative.
C23_PositivePageAndLimit ==
    fn \in {"getAllProducts", "getAllCategories"}
        => result.currentPage >= 1 /\ result.limit >= 1 /\ result.skip >= 0

\* C24: whatever createProduct and updateProduct requests were served, every
\* stored product has a price greater than zero and a stock that is not
\* negative.
C24_PositivePriceAndStock ==
    \A p \in products : p.fields.price > 0 /\ p.fields.stock >= 0

\* C25: once a category or product request has been answered (with whatever
\* status), no stored record references an image URL for which that request
\* got a successful answer of cloudinary.uploader.destroy.
C25_NoReferenceToDeletedImage ==
    \A r \in Reqs :
        /\ (cpc[r] = "done" /\ \E i \in 1..Len(attempts[r]) : attempts[r][i].result = "answers")
               => \A c \in categories : c.image # category[r].image
        /\ ppc[r] = "done"
               => \A i \in 1..Len(pattempts[r]) :
                      pattempts[r][i].result = "answers"
                          => \A p \in products : \A k \in 1..Len(p.images) :
                                 p.images[k] # pattempts[r][i].imageUrl

\* C26: when no local User record matches a username and email and no other
\* registration is under way, a registerUser for them that has reached the
\* account creation can succeed: no account of the identity provider left by
\* a failed registration stands in its way.
C26_FailedRegistrationCanBeRetried ==
    \A r \in Reqs :
        (/\ pc[r] = "createUser"
         /\ ~Matches(users, body[r])
         /\ \A q \in Reqs \ {r} : pc[q] \in {"idle", "done"})
            => ~\E a \in kcAccounts : a.username = body[r].username /\ a.email = body[r].email

\* C27: the records and the pagination of one listing response describe one
\* state of the collection even when create and delete requests run beside
\* the listing: the response never holds more than max(0, totalCount - skip)
\* records, and hasNextPage is false whenever the page it holds is the last
\* one of the collection as find saw it.
C27_ListingDescribesOneState ==
    [][(GetAllProductsFind \/ GetAllCategoriesFind)
           => LET entries == IF fn = "products.find" THEN ProductEntries ELSE CategoryEntries
                  matching == CountDocuments(entries, result.search)
                  rest == result'.totalCount - result'.skip
              IN  /\ Len(result'.records) <= (IF rest < 0 THEN 0 ELSE rest)
                  /\ (result'.skip + result'.limit >= matching) => (result'.hasNextPage = FALSE)]_vars

\* C28: of the deleteProduct requests for one product id that have been
\* answered, at most one got the success confirmation, which holds the deleted
\* record; when two of them both read the product before it was removed,
\* exactly one got the confirmation and the other one 404; and a product that
\* such a request read is not in the collection once the request is answered.
C28_ConcurrentDeletesOneSuccess ==
    \A r \in Reqs :
        (preq[r].op = "delete" /\ ppc[r] = "done")
            => /\ pres[r].status \in {200, 404}
               /\ pres[r].status = 200 => pres[r].doc.id = preq[r].id
               /\ pres[r].status = 404 => pres[r].doc = NoProduct
               /\ DeleteFound(r) => ProductById(preq[r].id) = {}
               /\ \A q \in Reqs \ {r} :
                      (preq[q].op = "delete" /\ ppc[q] = "done" /\ preq[q].id = preq[r].id)
                          => /\ ~(pres[r].status = 200 /\ pres[q].status = 200)
                             /\ (DeleteFound(r) /\ DeleteFound(q))
                                    => (pres[r].status = 200 \/ pres[q].status = 200)

\* two requests read the same product, one removed it, the other got 404
C28_Witness ==
    /\ preq[1].op = "delete" /\ preq[2].op = "delete"
    /\ preq[1].id = preq[2].id
    /\ DeleteFound(1) /\ DeleteFound(2)
    /\ ppc[1] = "done" /\ ppc[2] = "done"
    /\ pres[1].status = 404 /\ pres[2].status = 200

\* C29: after a successful updateProduct, a remote delete attempt has been
\* issued for every image URL of the stored images list that is not in the new
\* images list, at whatever position it was and also when the new list is empty.
C29_DroppedImagesGetDeleteAttempt ==
    \A r \in Reqs :
        (preq[r].op = "update" /\ ppc[r] = "done" /\ pres[r].status = 200)
            => \A k \in 1..Len(product[r].images) :
                   (\A n \in 1..Len(preq[r].images) : preq[r].images[n] # product[r].images[k])
                       => \E i \in 1..Len(pattempts[r]) :
                              pattempts[r][i].imageUrl = product[r].images[k]

\* C30: for a collection that does not change and a fixed limit >= 1 and
\* search, the pages 1..totalPages of the listing are pairwise disjoint, hold
\* together exactly the records that match the filter, in the order of their
\* creation time, newest first, from page to page and within a page, and every
\* page but the last holds exactly limit records.
C30_PagesPartitionMatches ==
    (fn = "walk" /\ result[1].limit >= 1)
        => LET pages == result
               slots == {<<p, i>> : p \in 1..Len(pages), i \in 1..MaxRecords + 2}
               held == {s \in slots : s[2] <= Len(pages[s[1]].records)}
               record(s) == pages[s[1]].records[s[2]]
               matches == {e \in arg.collection : MatchesFilter(SearchOf(arg.query.search), e)}
           IN  /\ \A s \in held : \A t \in held : s # t => record(s) # record(t)
               /\ {record(s) : s \in held} = matches
               /\ \A s \in held : \A t \in held :
                      (s[1] < t[1] \/ (s[1] = t[1] /\ s[2] < t[2]))
                          => record(s).createdAt >= record(t).createdAt
               /\ \A p \in 1..(Len(pages) - 1) : Len(pages[p].records) = pages[p].limit

====
